---- MODULE Spec2Model ----
(***************************************************************************)
(* Column-mapping and row-classification engine of excel-mapper            *)
(* (src/main.go): readInputFile, normalizeHeaders, processRow,             *)
(* processFile and generateProcessingSummary.                              *)
(*                                                                         *)
(* A Go string is modelled as a sequence of one-character strings, so that *)
(* strings.ToLower, strings.TrimSpace, strings.Join and fmt's %d are       *)
(* computed character by character.  Go slices are sequences; Go indices   *)
(* are 0-based and kept 0-based in the variables (i, columnIndex), the     *)
(* sequence access adds one.                                               *)
(***************************************************************************)
EXTENDS Integers, Sequences, FiniteSets, TLC

VARIABLES
    fieldConfig,        \* package variable fieldConfig of type config.FieldConfig
    file,               \* the input file at filePath: extension, readability, records
    fieldMappings,      \* processFile parameter: canonical field -> source header
    order,              \* processFile parameter: output field order
    outputFormat,       \* processFile parameter
    pc,                 \* position inside processFile / processRow call
    rows,               \* processFile local: the parsed table
    normalizedHeaders,  \* processFile local
    outputFile,         \* the workbook: sheet name -> (row number -> cells)
    outputRowIndex,     \* next free row of sheet ProcessedData
    missingRowIndex,    \* next free row of sheet MissingData
    i,                  \* loop index of "for i, row := range rows" (0-based)
    successfulRows,
    missingCount,
    missingDetails,     \* contents of missingDetailsBuilder
    processedRow,       \* results of the last processRow call
    missingRow,
    rowMissingFields,
    rowSuccess,
    summary,
    uniqueID,           \* processFile parameter
    uploads,            \* artifacts written under ./uploads: path -> content
    result,             \* the (string, string) pair processFile returns
    requests,           \* the HTTP requests being served: request -> form and file
    handlers,           \* the locals of the handler serving each request
    apiKeysEnv,         \* the environment variable API_KEYS
    apiKeys,            \* package variable apiKeys of package auth (the keys mapped to true)
    xAPIKey,            \* the X-API-Key header of the request to a protected route
    authPc,             \* position of package auth: InitAPIKeys, then the middleware
    authResponse,       \* what the middleware wrote: status and body
    nextCalled,         \* the wrapped handler was called
    download,           \* the request handleDownload serves and what it answered
    modTime,            \* modification time of each entry of ./uploads, in hours
    clock,              \* time.Now(), in hours since the server started
    cleanup             \* the locals of cleanupOldFiles

\* the state of the handlers and of package auth
diskVars == <<download, modTime, clock, cleanup>>
serverVars == <<requests, handlers, diskVars>>
authVars == <<apiKeysEnv, apiKeys, xAPIKey, authPc, authResponse, nextCalled>>

vars == <<fieldConfig, file, fieldMappings, order, outputFormat, pc, rows,
          normalizedHeaders, outputFile, outputRowIndex, missingRowIndex, i,
          successfulRows, missingCount, missingDetails, processedRow,
          missingRow, rowMissingFields, rowSuccess, summary, uniqueID, uploads,
          result, serverVars, authVars>>

(***************************************************************************)
(* Bounds of the model.                                                    *)
(***************************************************************************)
MaxCols == 2    \* cells per row (header row and data rows)
MaxRows == 2    \* data rows per table

(***************************************************************************)
(* Strings.                                                                *)
(***************************************************************************)
EmptyStr == <<>>

UpperChars == <<"A","B","C","D","E","F","G","H","I","J","K","L","M",
                "N","O","P","Q","R","S","T","U","V","W","X","Y","Z">>
LowerChars == <<"a","b","c","d","e","f","g","h","i","j","k","l","m",
                "n","o","p","q","r","s","t","u","v","w","x","y","z">>
DigitChars == <<"0","1","2","3","4","5","6","7","8","9">>

\* the lower-case letter of every upper-case letter
LowerOfUpper ==
    [c \in {UpperChars[k] : k \in DOMAIN UpperChars} |->
        LowerChars[CHOOSE k \in DOMAIN UpperChars : UpperChars[k] = c]]

\* unicode.ToLower on one character
ToLowerChar(c) == IF c \in DOMAIN LowerOfUpper THEN LowerOfUpper[c] ELSE c

\* strings.ToLower
ToLower(s) == [k \in 1..Len(s) |-> ToLowerChar(s[k])]

\* unicode.IsSpace
IsSpace(c) == c \in {" ", "\t", "\n", "\r"}

RECURSIVE TrimLeft(_)
TrimLeft(s) == IF s # <<>> /\ IsSpace(Head(s)) THEN TrimLeft(Tail(s)) ELSE s

RECURSIVE TrimRight(_)
TrimRight(s) ==
    IF s # <<>> /\ IsSpace(s[Len(s)]) THEN TrimRight(SubSeq(s, 1, Len(s) - 1)) ELSE s

\* strings.TrimSpace
TrimSpace(s) == TrimRight(TrimLeft(s))

\* fmt's %d for a non-negative int
RECURSIVE Itoa(_)
Itoa(n) == IF n < 10 THEN <<DigitChars[n + 1]>>
           ELSE Itoa(n \div 10) \o <<DigitChars[(n % 10) + 1]>>

\* strings.Join(elems, sep)
RECURSIVE Join(_, _)
Join(elems, sep) ==
    IF elems = <<>> THEN <<>>
    ELSE IF Len(elems) = 1 THEN elems[1]
    ELSE elems[1] \o sep \o Join(Tail(elems), sep)

MISSING == <<"M","I","S","S","I","N","G">>

(***************************************************************************)
(* config.FieldConfig                                                      *)
(***************************************************************************)
\* FieldConfig.GetOrderedFields
GetOrderedFields(fc) == [k \in 1..Len(fc.Fields) |-> fc.Fields[k].Name]

(***************************************************************************)
(* normalizeHeaders                                                        *)
(***************************************************************************)
\* normalizeHeaders without the lower-casing
normalizeHeadersTrimOnly(headers) ==
    [k \in 1..Len(headers) |-> TrimSpace(headers[k])]

normalizeHeaders(headers) ==
    [k \in 1..Len(headers) |-> TrimSpace(ToLower(headers[k]))]

(***************************************************************************)
(* processRow                                                              *)
(***************************************************************************)
\* the lookup loop over fieldConfig.Fields: the first field of that name
\* decides, a name that is not configured is not mandatory
isMandatoryOf(expectedField, fc) ==
    LET hits == {k \in 1..Len(fc.Fields) : fc.Fields[k].Name = expectedField}
    IN  IF hits = {} THEN FALSE
        ELSE fc.Fields[CHOOSE k \in hits : \A m \in hits : k <= m].IsMandatory

\* fieldMappings[expectedField]: a Go map yields "" for an absent key
mappedColumnOf(mappings, expectedField) ==
    IF expectedField \in DOMAIN mappings THEN mappings[expectedField] ELSE EmptyStr

\* normalizedColumnHeader := strings.TrimSpace(strings.ToLower(mappedColumn))
normalizeColumn(mappedColumn) == TrimSpace(ToLower(mappedColumn))

\* the search loop without its break: the last equal header
columnIndexOfLast(nHeaders, normalizedColumnHeader) ==
    LET hits == {j \in 1..Len(nHeaders) : nHeaders[j] = normalizedColumnHeader}
    IN  IF hits = {} THEN -1
        ELSE (CHOOSE j \in hits : \A m \in hits : j >= m) - 1

\* the search loop: 0-based index of the first equal header, -1 if none
columnIndexOf(nHeaders, normalizedColumnHeader) ==
    LET hits == {j \in 1..Len(nHeaders) : nHeaders[j] = normalizedColumnHeader}
    IN  IF hits = {} THEN -1
        ELSE (CHOOSE j \in hits : \A m \in hits : j <= m) - 1

\* processField with a mapped optional field that fails counted as a failure
processFieldOptionalFails(acc, fieldIndex, row, nHeaders, mappings, ord, fc) ==
    LET expectedField == ord[fieldIndex + 1]
        isMandatory == isMandatoryOf(expectedField, fc)
        mappedColumn == mappedColumnOf(mappings, expectedField)
        columnIndex == columnIndexOf(nHeaders, normalizeColumn(mappedColumn))
    IN  IF mappedColumn = EmptyStr /\ ~isMandatory
        THEN acc
        ELSE IF /\ columnIndex # -1
                /\ columnIndex < Len(row)
                /\ TrimSpace(row[columnIndex + 1]) # EmptyStr
        THEN [acc EXCEPT !.processedRow[fieldIndex + 1] = row[columnIndex + 1],
                         !.missingRow[fieldIndex + 1] = row[columnIndex + 1]]
        ELSE [acc EXCEPT !.missingFields =
                             IF isMandatory THEN Append(@, expectedField) ELSE @,
                         !.isSuccess = FALSE,
                         !.missingRow[fieldIndex + 1] = MISSING]

\* processField with the resolved cell stored trimmed
processFieldTrimmed(acc, fieldIndex, row, nHeaders, mappings, ord, fc) ==
    LET expectedField == ord[fieldIndex + 1]
        isMandatory == isMandatoryOf(expectedField, fc)
        mappedColumn == mappedColumnOf(mappings, expectedField)
        columnIndex == columnIndexOf(nHeaders, normalizeColumn(mappedColumn))
    IN  IF mappedColumn = EmptyStr /\ ~isMandatory
        THEN acc
        ELSE IF /\ columnIndex # -1
                /\ columnIndex < Len(row)
                /\ TrimSpace(row[columnIndex + 1]) # EmptyStr
        THEN [acc EXCEPT !.processedRow[fieldIndex + 1] = TrimSpace(row[columnIndex + 1]),
                         !.missingRow[fieldIndex + 1] = TrimSpace(row[columnIndex + 1])]
        ELSE IF isMandatory
        THEN [acc EXCEPT !.missingFields = Append(@, expectedField),
                         !.isSuccess = FALSE,
                         !.missingRow[fieldIndex + 1] = MISSING]
        ELSE [acc EXCEPT !.missingRow[fieldIndex + 1] =
                             IF mappedColumn # EmptyStr THEN MISSING ELSE EmptyStr]

\* processField with "MISSING" written for mandatory fields only
processFieldMandatoryOnly(acc, fieldIndex, row, nHeaders, mappings, ord, fc) ==
    LET expectedField == ord[fieldIndex + 1]
        isMandatory == isMandatoryOf(expectedField, fc)
        mappedColumn == mappedColumnOf(mappings, expectedField)
        columnIndex == columnIndexOf(nHeaders, normalizeColumn(mappedColumn))
    IN  IF mappedColumn = EmptyStr /\ ~isMandatory
        THEN acc
        ELSE IF /\ columnIndex # -1
                /\ columnIndex < Len(row)
                /\ TrimSpace(row[columnIndex + 1]) # EmptyStr
        THEN [acc EXCEPT !.processedRow[fieldIndex + 1] = row[columnIndex + 1],
                         !.missingRow[fieldIndex + 1] = row[columnIndex + 1]]
        ELSE IF isMandatory
        THEN [acc EXCEPT !.missingFields = Append(@, expectedField),
                         !.isSuccess = FALSE,
                         !.missingRow[fieldIndex + 1] = MISSING]
        ELSE acc

\* processField with the sentinel written into the processed row as well
processFieldSentinelInBoth(acc, fieldIndex, row, nHeaders, mappings, ord, fc) ==
    LET expectedField == ord[fieldIndex + 1]
        isMandatory == isMandatoryOf(expectedField, fc)
        mappedColumn == mappedColumnOf(mappings, expectedField)
        columnIndex == columnIndexOf(nHeaders, normalizeColumn(mappedColumn))
    IN  IF mappedColumn = EmptyStr /\ ~isMandatory
        THEN acc
        ELSE IF /\ columnIndex # -1
                /\ columnIndex < Len(row)
                /\ TrimSpace(row[columnIndex + 1]) # EmptyStr
        THEN [acc EXCEPT !.processedRow[fieldIndex + 1] = row[columnIndex + 1],
                         !.missingRow[fieldIndex + 1] = row[columnIndex + 1]]
        ELSE IF isMandatory
        THEN [acc EXCEPT !.missingFields = Append(@, expectedField),
                         !.isSuccess = FALSE,
                         !.missingRow[fieldIndex + 1] = MISSING]
        ELSE [acc EXCEPT !.missingRow[fieldIndex + 1] = MISSING,
                         !.processedRow[fieldIndex + 1] = MISSING]

\* one iteration of "for fieldIndex, expectedField := range order"
\* acc holds processedRow, missingRow, missingFields, isSuccess
processField(acc, fieldIndex, row, nHeaders, mappings, ord, fc) ==
    LET expectedField == ord[fieldIndex + 1]
        isMandatory == isMandatoryOf(expectedField, fc)
        mappedColumn == mappedColumnOf(mappings, expectedField)
        normalizedColumnHeader == normalizeColumn(mappedColumn)
        columnIndex == columnIndexOf(nHeaders, normalizedColumnHeader)
    IN  IF mappedColumn = EmptyStr /\ ~isMandatory
        THEN [acc EXCEPT !.processedRow[fieldIndex + 1] = EmptyStr,
                         !.missingRow[fieldIndex + 1] = EmptyStr]
        ELSE IF /\ columnIndex # -1
                /\ columnIndex < Len(row)
                /\ TrimSpace(row[columnIndex + 1]) # EmptyStr
        THEN [acc EXCEPT !.processedRow[fieldIndex + 1] = row[columnIndex + 1],
                         !.missingRow[fieldIndex + 1] = row[columnIndex + 1]]
        ELSE IF isMandatory
        THEN [acc EXCEPT !.missingFields = Append(@, expectedField),
                         !.isSuccess = FALSE,
                         !.missingRow[fieldIndex + 1] = MISSING,
                         !.processedRow[fieldIndex + 1] = EmptyStr]
        ELSE [acc EXCEPT !.missingRow[fieldIndex + 1] =
                             IF mappedColumn # EmptyStr THEN MISSING ELSE EmptyStr,
                         !.processedRow[fieldIndex + 1] = EmptyStr]

RECURSIVE processRowLoop(_, _, _, _, _, _, _)
processRowLoop(acc, fieldIndex, row, nHeaders, mappings, ord, fc) ==
    IF fieldIndex >= Len(ord) THEN acc
    ELSE processRowLoop(processField(acc, fieldIndex, row, nHeaders, mappings, ord, fc),
                        fieldIndex + 1, row, nHeaders, mappings, ord, fc)

processRow(row, nHeaders, mappings, ord, fc) ==
    processRowLoop([processedRow  |-> [k \in 1..Len(ord) |-> EmptyStr],
                    missingRow    |-> [k \in 1..Len(ord) |-> EmptyStr],
                    missingFields |-> <<>>,
                    isSuccess     |-> TRUE],
                   0, row, nHeaders, mappings, ord, fc)

(***************************************************************************)
(* readInputFile, readXLSXFile, readCSVFile                                *)
(*                                                                         *)
(* A file is [path, ok, records]: ok = FALSE is a file that cannot be      *)
(* opened or parsed (missing, corrupt archive, malformed quoting);         *)
(* records is what the parser yields for a readable one.                   *)
(***************************************************************************)
\* strings.HasSuffix
HasSuffix(s, suffix) ==
    /\ Len(s) >= Len(suffix)
    /\ SubSeq(s, Len(s) - Len(suffix) + 1, Len(s)) = suffix

ExtXLSX == <<".","x","l","s","x">>
ExtCSV  == <<".","c","s","v">>

ErrUnsupported == <<"u","n","s","u","p","p","o","r","t","e","d"," ","f","i","l","e"," ",
                    "f","o","r","m","a","t">>
ErrOpenXLSX == <<"e","r","r","o","r"," ","o","p","e","n","i","n","g"," ","x","l","s","x",
                 " ","f","i","l","e",":"," ">>
ErrOpenCSV == <<"e","r","r","o","r"," ","o","p","e","n","i","n","g"," ","C","S","V"," ",
                "f","i","l","e",":"," ">>
ErrReadCSV == <<"e","r","r","o","r"," ","r","e","a","d","i","n","g"," ","C","S","V"," ",
                "f","i","l","e",":"," ">>
\* the text of the operating system's error for a file that cannot be opened
ErrNoSuchFile == <<"n","o"," ","s","u","c","h"," ","f","i","l","e">>
\* encoding/csv ErrFieldCount, as reported for the record at the given line
ErrFieldCount(line) ==
    <<"r","e","c","o","r","d"," ","o","n"," ","l","i","n","e"," ">> \o Itoa(line)
    \o <<":"," ","w","r","o","n","g"," ","n","u","m","b","e","r"," ","o","f"," ",
         "f","i","e","l","d","s">>

\* excelize OpenFile + GetRows of the first sheet: rows may differ in length
readXLSXFile(f) ==
    IF ~f.ok THEN [rows |-> <<>>, err |-> ErrOpenXLSX \o ErrNoSuchFile]
    ELSE [rows |-> f.records, err |-> EmptyStr]

\* csv.NewReader(...).Read() until io.EOF.  The reader is used with its
\* default FieldsPerRecord = 0: the first record fixes the number of fields
\* and a later record with another number of fields is ErrFieldCount.
readCSVFile(f) ==
    IF ~f.ok THEN [rows |-> <<>>, err |-> ErrOpenCSV \o ErrNoSuchFile]
    ELSE LET bad == {k \in 1..Len(f.records) : Len(f.records[k]) # Len(f.records[1])}
         IN  IF bad = {} THEN [rows |-> f.records, err |-> EmptyStr]
             ELSE [rows |-> <<>>,
                   err  |-> ErrReadCSV
                            \o ErrFieldCount(CHOOSE k \in bad : \A m \in bad : k <= m)]

readInputFile(f) ==
    IF HasSuffix(f.path, ExtXLSX) THEN readXLSXFile(f)
    ELSE IF HasSuffix(f.path, ExtCSV) THEN readCSVFile(f)
    ELSE [rows |-> <<>>, err |-> ErrUnsupported]

(***************************************************************************)
(* The output workbook (excelize.File)                                     *)
(***************************************************************************)
\* excelize SetSheetRow(sheet, "A<n>", &cells): writes the cells from column A
SetSheetRow(wb, sheet, n, cells) ==
    LET old == IF n \in DOMAIN wb[sheet] THEN wb[sheet][n] ELSE <<>>
        len == IF Len(old) > Len(cells) THEN Len(old) ELSE Len(cells)
        new == [k \in 1..len |-> IF k <= Len(cells) THEN cells[k] ELSE old[k]]
    IN  [wb EXCEPT ![sheet] = [m \in (DOMAIN @) \cup {n} |-> IF m = n THEN new ELSE @[m]]]

\* NewFile, NewSheet x 2, DeleteSheet("Sheet1"), header row in both sheets
createOutputWorkbook(headers) ==
    [ProcessedData |-> (1 :> headers), MissingData |-> (1 :> headers)]

(***************************************************************************)
(* generateProcessingSummary                                               *)
(***************************************************************************)
SummaryTitle == <<"D","a","t","a"," ","M","a","p","p","i","n","g"," ","S","u","m","m","a",
                  "r","y",":","\n">>
SummaryTotal == <<"\n","T","o","t","a","l"," ","R","o","w","s"," ","P","r","o","c","e",
                  "s","s","e","d",":"," ">>
SummarySuccessful == <<"S","u","c","c","e","s","s","f","u","l"," ","R","o","w","s",":"," ">>
SummaryMissing == <<"R","o","w","s"," ","w","i","t","h"," ","M","i","s","s","i","n","g",
                    " ","D","a","t","a",":"," ">>

generateProcessingSummary(totalRows, nSuccessful, nMissing, details) ==
    SummaryTitle \o details
    \o SummaryTotal \o Itoa(totalRows) \o <<"\n">>
    \o SummarySuccessful \o Itoa(nSuccessful) \o <<"\n">>
    \o SummaryMissing \o Itoa(nMissing) \o <<"\n">>

\* the detail line numbered from the first data row instead of the file's first line
MissingDetailLineFromData(n, fields) ==
    <<"R","o","w"," ">> \o Itoa(n - 1)
    \o <<":"," ","M","i","s","s","i","n","g"," ","m","a","n","d","a","t","o","r","y"," ",
         "f","i","e","l","d","s"," ","-"," ">>
    \o Join(fields, <<",", " ">>) \o <<"\n">>

\* fmt.Sprintf("Row %d: Missing mandatory fields - %s\n", n, strings.Join(fields, ", "))
MissingDetailLine(n, fields) ==
    <<"R","o","w"," ">> \o Itoa(n)
    \o <<":"," ","M","i","s","s","i","n","g"," ","m","a","n","d","a","t","o","r","y"," ",
         "f","i","e","l","d","s"," ","-"," ">>
    \o Join(fields, <<",", " ">>) \o <<"\n">>

ErrorOpeningFile == <<"E","r","r","o","r"," ","o","p","e","n","i","n","g"," ","f","i","l","e">>
NoDataFound == <<"N","o"," ","d","a","t","a"," ","f","o","u","n","d"," ","i","n"," ","t",
                 "h","e"," ","f","i","l","e">>

(***************************************************************************)
(* Output renderers: saveAsXLSX, saveAsCSV, saveAsMarkdown                 *)
(***************************************************************************)
\* string(rune('A'+j)) is a column name only for j < 26; for any other j
\* GetCellValue fails and the caller keeps "".  A cell that was never set
\* reads as "".
GetCellValue(wb, sheet, j, rowIndex) ==
    IF /\ j < Len(UpperChars)
       /\ rowIndex \in DOMAIN wb[sheet]
       /\ j < Len(wb[sheet][rowIndex])
    THEN wb[sheet][rowIndex][j + 1]
    ELSE EmptyStr

\* "for rowIndex := 2; rowIndex < rowCount; rowIndex++" with the inner loop
\* over the columns of order
ReadSheetRows(wb, sheet, ord, rowCount) ==
    [r \in 1..(rowCount - 2) |->
        [c \in 1..Len(ord) |-> GetCellValue(wb, sheet, c - 1, r + 1)]]

\* strings.ReplaceAll(cell, "|", "\\|")
RECURSIVE EscapePipes(_)
EscapePipes(cell) ==
    IF cell = <<>> THEN <<>>
    ELSE (IF Head(cell) = "|" THEN <<"\\", "|">> ELSE <<Head(cell)>>)
         \o EscapePipes(Tail(cell))

RECURSIVE ConcatAll(_)
ConcatAll(parts) == IF parts = <<>> THEN <<>> ELSE Head(parts) \o ConcatAll(Tail(parts))

\* generateMarkdownTable with the cells written as they are
generateMarkdownTableUnescaped(headers, tableRows) ==
    <<"|", " ">>
    \o ConcatAll([k \in 1..Len(headers) |-> headers[k] \o <<" ", "|", " ">>])
    \o <<"\n", "|">>
    \o ConcatAll([k \in 1..Len(headers) |-> <<" ", "-", "-", "-", " ", "|">>])
    \o <<"\n">>
    \o ConcatAll([r \in 1..Len(tableRows) |->
          <<"|", " ">>
          \o ConcatAll([c \in 1..Len(tableRows[r]) |->
                tableRows[r][c] \o <<" ", "|", " ">>])
          \o <<"\n">>])

generateMarkdownTable(headers, tableRows) ==
    <<"|", " ">>
    \o ConcatAll([k \in 1..Len(headers) |-> headers[k] \o <<" ", "|", " ">>])
    \o <<"\n", "|">>
    \o ConcatAll([k \in 1..Len(headers) |-> <<" ", "-", "-", "-", " ", "|">>])
    \o <<"\n">>
    \o ConcatAll([r \in 1..Len(tableRows) |->
          <<"|", " ">>
          \o ConcatAll([c \in 1..Len(tableRows[r]) |->
                EscapePipes(tableRows[r][c]) \o <<" ", "|", " ">>])
          \o <<"\n">>])

\* encoding/csv Writer.fieldNeedsQuotes with Comma = '|'
fieldNeedsQuotes(field) ==
    IF field = EmptyStr THEN FALSE
    ELSE IF field = <<"\\", ".">> THEN TRUE
    ELSE \/ \E k \in 1..Len(field) : field[k] \in {"|", "\"", "\n", "\r"}
         \/ IsSpace(field[1])

\* the quoted form of a field: quotes doubled; "\r" and "\n" are written as
\* they are (UseCRLF is false)
RECURSIVE QuoteBody(_)
QuoteBody(field) ==
    IF field = <<>> THEN <<>>
    ELSE (IF Head(field) = "\"" THEN <<"\"", "\"">> ELSE <<Head(field)>>)
         \o QuoteBody(Tail(field))

\* encoding/csv Writer.Write with Comma = '|'
csvWrite(record) ==
    ConcatAll([k \in 1..Len(record) |->
        (IF k > 1 THEN <<"|">> ELSE <<>>)
        \o (IF fieldNeedsQuotes(record[k])
            THEN <<"\"">> \o QuoteBody(record[k]) \o <<"\"">>
            ELSE record[k])])
    \o <<"\n">>

UploadsDir == <<".","/","u","p","l","o","a","d","s","/">>
ProcessedCSVPath(id) == UploadsDir \o id
    \o <<"_","p","r","o","c","e","s","s","e","d","_","d","a","t","a",".","c","s","v">>
MissingCSVPath(id) == UploadsDir \o id
    \o <<"_","m","i","s","s","i","n","g","_","d","a","t","a",".","c","s","v">>
ProcessedMDPath(id) == UploadsDir \o id
    \o <<"_","p","r","o","c","e","s","s","e","d","_","d","a","t","a",".","m","d">>
MissingMDPath(id) == UploadsDir \o id
    \o <<"_","m","i","s","s","i","n","g","_","d","a","t","a",".","m","d">>
ProcessedXLSXPath(id) == UploadsDir \o id
    \o <<"_","p","r","o","c","e","s","s","e","d","_","d","a","t","a",".","x","l","s","x">>

\* os.Create / SaveAs of one artifact
WriteFile(fs, path, content) ==
    [q \in (DOMAIN fs) \cup {path} |-> IF q = path THEN content ELSE fs[q]]

\* saveAsCSV.  failAt = 0: no failure; 1: creating the processed-data file
\* fails; 2: creating the missing-data file fails.
saveAsCSV(fs, wb, ord, outputRowCount, missingRowCount, id, failAt) ==
    LET processedText ==
            csvWrite(ord)
            \o ConcatAll([r \in 1..(outputRowCount - 2) |->
                  csvWrite(ReadSheetRows(wb, "ProcessedData", ord, outputRowCount)[r])])
        missingText ==
            csvWrite(ord)
            \o ConcatAll([r \in 1..(missingRowCount - 2) |->
                  csvWrite(ReadSheetRows(wb, "MissingData", ord, missingRowCount)[r])])
    IN  IF failAt = 1 THEN [fs |-> fs, path |-> EmptyStr, ok |-> FALSE]
        ELSE IF failAt = 2
        THEN [fs   |-> WriteFile(fs, ProcessedCSVPath(id), processedText),
              path |-> ProcessedCSVPath(id), ok |-> FALSE]
        ELSE [fs   |-> WriteFile(WriteFile(fs, ProcessedCSVPath(id), processedText),
                                 MissingCSVPath(id), missingText),
              path |-> ProcessedCSVPath(id), ok |-> TRUE]

\* the character U+0060 (grave accent), which the fenced block is written with
BackTick == "U+0060"

MDReportHead == <<"#"," ","D","a","t","a"," ","P","r","o","c","e","s","s","i","n","g"," ",
                  "R","e","p","o","r","t","\n","\n","#","#"," ","S","u","m","m","a","r","y",
                  "\n","\n",BackTick,BackTick,BackTick,"\n">>
MDReportMid == <<"\n",BackTick,BackTick,BackTick,"\n","\n","#","#"," ","P","r","o","c","e","s","s","e","d",
                 " ","D","a","t","a","\n","\n">>
MDMissingHead == <<"#"," ","M","i","s","s","i","n","g"," ","D","a","t","a"," ","R","e","p",
                   "o","r","t","\n","\n","#","#"," ","M","i","s","s","i","n","g"," ","R","e",
                   "c","o","r","d","s","\n","\n">>

\* saveAsMarkdown, failAt as for saveAsCSV
saveAsMarkdown(fs, wb, ord, outputRowCount, missingRowCount, text, id, failAt) ==
    LET fullContent ==
            MDReportHead \o text \o MDReportMid
            \o generateMarkdownTable(ord,
                   ReadSheetRows(wb, "ProcessedData", ord, outputRowCount))
        missingFullContent ==
            MDMissingHead
            \o generateMarkdownTable(ord,
                   ReadSheetRows(wb, "MissingData", ord, missingRowCount))
    IN  IF failAt = 1 THEN [fs |-> fs, path |-> EmptyStr, ok |-> FALSE]
        ELSE IF failAt = 2
        THEN [fs   |-> WriteFile(fs, ProcessedMDPath(id), fullContent),
              path |-> ProcessedMDPath(id), ok |-> FALSE]
        ELSE [fs   |-> WriteFile(WriteFile(fs, ProcessedMDPath(id), fullContent),
                                 MissingMDPath(id), missingFullContent),
              path |-> ProcessedMDPath(id), ok |-> TRUE]

\* saveAsXLSX: the workbook is written as it stands
saveAsXLSX(fs, wb, outputPath, failAt) ==
    IF failAt # 0 THEN [fs |-> fs, path |-> EmptyStr, ok |-> FALSE]
    ELSE [fs |-> WriteFile(fs, outputPath, wb), path |-> outputPath, ok |-> TRUE]

(***************************************************************************)
(* Inputs: configurations, requests and files                              *)
(***************************************************************************)
ClientCode == <<"C","l","i","e","n","t"," ","C","o","d","e">>
CustomerID == <<"C","u","s","t","o","m","e","r"," ","I","D">>
FieldNames == {ClientCode, CustomerID}

Field(name, mandatory) == [Name |-> name, IsMandatory |-> mandatory]

\* config/field_config.json as loaded by InitConfig: two fields of which at
\* least one is mandatory, or one optional field (a second field then enters
\* the order only as a mapping key that is not configured)
Configs ==
    {[Fields |-> <<Field(ClientCode, c[1]), Field(CustomerID, c[2])>>] :
        c \in {d \in BOOLEAN \X BOOLEAN : d[1] \/ d[2]}}
    \cup {[Fields |-> <<Field(ClientCode, FALSE)>>]}

\* source headers: three spellings of one header, one that differs from
\* them only by the inner space, and a blank header cell
HdrUpper   == <<"A","C","C","O","U","N","T"," ","N","U","M","B","E","R">>
HdrPadded  == <<" ","a","c","c","o","u","n","t"," ","n","u","m","b","e","r"," ">>
HdrNoSpace == <<"A","c","c","o","u","n","t","N","u","m","b","e","r">>
HeaderValues == {HdrUpper, HdrPadded, HdrNoSpace, EmptyStr}

\* the column a request maps a field to, when it maps it
MapAccountNumber == <<"A","c","c","o","u","n","t"," ","N","u","m","b","e","r">>
MapNoSpace == <<"a","c","c","o","u","n","t","n","u","m","b","e","r"," ">>
MappedColumnOfField(name) == IF name = ClientCode THEN MapAccountNumber ELSE MapNoSpace

\* source cells: whitespace only, a value with surrounding whitespace, and a
\* value that reads like the sentinel (an absent cell is a short row)
CellBlank == <<" ">>
CellValue == <<" ","v"," ">>
CellValues == {CellBlank, CellValue, MISSING}

SeqsUpTo(S, n) == UNION {[1..k -> S] : k \in 0..n}

SeqToSet(q) == {q[k] : k \in 1..Len(q)}

\* the mappings over the names in D: every name is left out, or (mayBeEmpty)
\* present with the empty string, or mapped to its column
MappingsOver(D, mayBeEmpty) ==
    UNION {{m \in [K -> {EmptyStr, MapAccountNumber, MapNoSpace}] :
               \A n \in K : \/ m[n] = MappedColumnOfField(n)
                            \/ mayBeEmpty /\ m[n] = EmptyStr}
           : K \in SUBSET D}

\* handleAPIProcess: the mappings are the JSON object as sent, the order is
\* the configured one
APIRequests(fc) ==
    {[fieldMappings |-> m, order |-> GetOrderedFields(fc)] :
        m \in MappingsOver(SeqToSet(GetOrderedFields(fc)), TRUE)}

\* handleUpload: form values "mapping_<field>"; an empty value gives no
\* mapping entry; a key that is not in the order is appended to it
UploadRequests(fc) ==
    LET known == SeqToSet(GetOrderedFields(fc))
    IN  UNION {{[fieldMappings |-> m,
                 order |-> GetOrderedFields(fc)
                           \o (IF extra = {} THEN <<>> ELSE <<CHOOSE n \in extra : TRUE>>)] :
                    m \in {mm \in MappingsOver(FieldNames, FALSE) :
                              (DOMAIN mm) \ known \subseteq extra}}
               : extra \in SUBSET (FieldNames \ known)}

Requests(fc) == APIRequests(fc) \cup UploadRequests(fc)

PathCSV  == <<"i","n",".","c","s","v">>
PathXLSX == <<"i","n",".","x","l","s","x">>
PathTXT  == <<"i","n",".","t","x","t">>

\* what encoding/csv can yield as records: no record is empty (blank lines
\* are skipped)
IsCSVContent(t) == \A k \in 1..Len(t) : t[k] # <<>>

FilesOf(tables) ==
    {[path |-> PathXLSX, ok |-> TRUE, records |-> t] : t \in tables}
    \cup {[path |-> PathCSV, ok |-> TRUE, records |-> t] :
             t \in {u \in tables : IsCSVContent(u)}}
    \cup {[path |-> p, ok |-> FALSE, records |-> <<>>] : p \in {PathXLSX, PathCSV}}
    \cup {[path |-> PathTXT, ok |-> TRUE, records |-> <<>>]}

OutputFormats == {"csv", "markdown", "excel"}

UniqueIDs == {<<"1","7","_","a","b">>}

(***************************************************************************)
(* processFile as a state machine                                          *)
(***************************************************************************)
NoSheets == [ProcessedData |-> <<>>, MissingData |-> <<>>]

\* no download is being served, the clean-up routine is not running, no
\* time has passed
DiskIdle ==
    /\ download = [pc |-> "idle", file |-> EmptyStr, served |-> EmptyStr,
                   response |-> [status |-> 0, body |-> EmptyStr]]
    /\ modTime = <<>>
    /\ clock = 0
    /\ cleanup = [pc |-> "idle", due |-> TRUE, now |-> 0, files |-> <<>>]

\* no request is being served by a handler
ServerIdle == requests = <<>> /\ handlers = <<>> /\ DiskIdle

\* package auth before InitAPIKeys, and no request to a protected route
AuthIdle ==
    /\ apiKeysEnv = EmptyStr
    /\ apiKeys = {}
    /\ xAPIKey = EmptyStr
    /\ authPc = "idle"
    /\ authResponse = [status |-> 0, body |-> EmptyStr]
    /\ nextCalled = FALSE

\* the locals of processFile before they are assigned
LocalsUnset ==
    /\ rows = <<>>
    /\ normalizedHeaders = <<>>
    /\ outputFile = NoSheets
    /\ outputRowIndex = 0
    /\ missingRowIndex = 0
    /\ i = 0
    /\ successfulRows = 0
    /\ missingCount = 0
    /\ missingDetails = EmptyStr
    /\ processedRow = <<>>
    /\ missingRow = <<>>
    /\ rowMissingFields = <<>>
    /\ rowSuccess = FALSE
    /\ summary = EmptyStr
    /\ result = <<EmptyStr, EmptyStr>>

\* the tables of the pipeline: a header row with both mapped columns or with
\* the first only, and up to MaxRows data rows of empty cells and values, as
\* wide as the wider header at most
PipelineHeaders == {<<HdrPadded, HdrNoSpace>>, <<HdrUpper>>}
PipelineDataRows == SeqsUpTo({EmptyStr, CellValue}, Len(<<HdrPadded, HdrNoSpace>>))
PipelineTables ==
    {<<>>} \cup {<<h>> \o d : h \in PipelineHeaders, d \in SeqsUpTo(PipelineDataRows, MaxRows)}

PipelineConfigs ==
    {[Fields |-> <<Field(ClientCode, TRUE), Field(CustomerID, b)>>] : b \in BOOLEAN}

Init ==
    /\ fieldConfig \in PipelineConfigs
    /\ \E rq \in UploadRequests(fieldConfig) :
          /\ fieldMappings = rq.fieldMappings
          /\ order = rq.order
    /\ file \in FilesOf(PipelineTables)
    /\ outputFormat \in OutputFormats
    /\ uniqueID \in UniqueIDs
    /\ uploads = <<>>
    /\ pc = "start"
    /\ LocalsUnset
    /\ ServerIdle
    /\ AuthIdle

\* ReadInput that goes on with an empty table when the read fails
ReadInputIgnoringError ==
    /\ pc = "start"
    /\ rows' = readInputFile(file).rows
    /\ pc' = "loaded"
    /\ result' = result
    /\ UNCHANGED <<serverVars, authVars>>
    /\ UNCHANGED <<fieldConfig, file, fieldMappings, order, outputFormat,
                   normalizedHeaders, outputFile, outputRowIndex, missingRowIndex, i,
                   successfulRows, missingCount, missingDetails, processedRow,
                   missingRow, rowMissingFields, rowSuccess, summary, uniqueID, uploads>>

\* rows, err := readInputFile(filePath), and the return on an error
ReadInput ==
    /\ pc = "start"
    /\ LET r == readInputFile(file)
       IN  IF r.err # EmptyStr
           THEN /\ result' = <<ErrorOpeningFile \o <<":", " ">> \o r.err, ErrorOpeningFile>>
                /\ pc' = "done"
                /\ rows' = rows
           ELSE /\ rows' = r.rows
                /\ pc' = "loaded"
                /\ result' = result
    /\ UNCHANGED <<serverVars, authVars>>
    /\ UNCHANGED <<fieldConfig, file, fieldMappings, order, outputFormat,
                   normalizedHeaders, outputFile, outputRowIndex, missingRowIndex, i,
                   successfulRows, missingCount, missingDetails, processedRow,
                   missingRow, rowMissingFields, rowSuccess, summary, uniqueID, uploads>>

\* NoData that returns only after the workbook has been created
NoDataAfterWorkbook ==
    /\ pc = "loaded"
    /\ Len(rows) = 0
    /\ outputFile' = createOutputWorkbook(order)
    /\ result' = <<NoDataFound \o <<".">>, NoDataFound>>
    /\ pc' = "done"
    /\ UNCHANGED <<serverVars, authVars>>
    /\ UNCHANGED <<fieldConfig, file, fieldMappings, order, outputFormat, rows,
                   normalizedHeaders, outputRowIndex, missingRowIndex, i,
                   successfulRows, missingCount, missingDetails, processedRow,
                   missingRow, rowMissingFields, rowSuccess, summary, uniqueID, uploads>>

\* if len(rows) == 0 { return "No data found in the file.", ... }
NoData ==
    /\ pc = "loaded"
    /\ Len(rows) = 0
    /\ result' = <<NoDataFound \o <<".">>, NoDataFound>>
    /\ pc' = "done"
    /\ UNCHANGED <<serverVars, authVars>>
    /\ UNCHANGED <<fieldConfig, file, fieldMappings, order, outputFormat, rows,
                   normalizedHeaders, outputFile, outputRowIndex, missingRowIndex, i,
                   successfulRows, missingCount, missingDetails, processedRow,
                   missingRow, rowMissingFields, rowSuccess, summary, uniqueID, uploads>>

\* counters, normalizeHeaders(rows[0]), createOutputWorkbook(order), row indices
Prepare ==
    /\ pc = "loaded"
    /\ Len(rows) # 0
    /\ missingDetails' = EmptyStr
    /\ missingCount' = 0
    /\ successfulRows' = 0
    /\ normalizedHeaders' = normalizeHeaders(rows[1])
    /\ outputFile' = createOutputWorkbook(order)
    /\ outputRowIndex' = 2
    /\ missingRowIndex' = 2
    /\ i' = 0
    /\ pc' = "loop"
    /\ UNCHANGED <<serverVars, authVars>>
    /\ UNCHANGED <<fieldConfig, file, fieldMappings, order, outputFormat, rows,
                   processedRow, missingRow, rowMissingFields, rowSuccess, summary,
                   uniqueID, uploads, result>>

\* the iteration for i == 0: continue
SkipHeader ==
    /\ pc = "loop"
    /\ i < Len(rows)
    /\ i = 0
    /\ i' = i + 1
    /\ UNCHANGED <<serverVars, authVars>>
    /\ UNCHANGED <<fieldConfig, file, fieldMappings, order, outputFormat, pc, rows,
                   normalizedHeaders, outputFile, outputRowIndex, missingRowIndex,
                   successfulRows, missingCount, missingDetails, processedRow,
                   missingRow, rowMissingFields, rowSuccess, summary, uniqueID,
                   uploads, result>>

\* ProcessDataRow with every row written to ProcessedData, complete or not
ProcessDataRowAlwaysProcessed ==
    /\ pc = "loop"
    /\ i < Len(rows)
    /\ i # 0
    /\ LET r == processRow(rows[i + 1], normalizedHeaders, fieldMappings, order, fieldConfig)
       IN  /\ processedRow' = r.processedRow
           /\ missingRow' = r.missingRow
           /\ rowMissingFields' = r.missingFields
           /\ rowSuccess' = r.isSuccess
           /\ outputRowIndex' = outputRowIndex + 1
           /\ IF r.isSuccess
              THEN /\ successfulRows' = successfulRows + 1
                   /\ outputFile' = SetSheetRow(outputFile, "ProcessedData",
                                                outputRowIndex, r.processedRow)
                   /\ UNCHANGED <<missingCount, missingRowIndex, missingDetails>>
              ELSE /\ missingCount' = missingCount + 1
                   /\ outputFile' = SetSheetRow(
                          SetSheetRow(outputFile, "ProcessedData", outputRowIndex,
                                      r.processedRow),
                          "MissingData", missingRowIndex, r.missingRow)
                   /\ missingRowIndex' = missingRowIndex + 1
                   /\ missingDetails' =
                          IF Len(r.missingFields) > 0
                          THEN missingDetails \o MissingDetailLine(i + 1, r.missingFields)
                          ELSE missingDetails
                   /\ UNCHANGED successfulRows
    /\ i' = i + 1
    /\ UNCHANGED <<serverVars, authVars>>
    /\ UNCHANGED <<fieldConfig, file, fieldMappings, order, outputFormat, pc, rows,
                   normalizedHeaders, summary, uniqueID, uploads, result>>

\* ProcessDataRow that does not advance missingRowIndex
ProcessDataRowSameMissingRow ==
    /\ pc = "loop"
    /\ i < Len(rows)
    /\ i # 0
    /\ LET r == processRow(rows[i + 1], normalizedHeaders, fieldMappings, order, fieldConfig)
       IN  /\ processedRow' = r.processedRow
           /\ missingRow' = r.missingRow
           /\ rowMissingFields' = r.missingFields
           /\ rowSuccess' = r.isSuccess
           /\ missingRowIndex' = missingRowIndex
           /\ IF r.isSuccess
              THEN /\ successfulRows' = successfulRows + 1
                   /\ outputFile' = SetSheetRow(outputFile, "ProcessedData",
                                                outputRowIndex, r.processedRow)
                   /\ outputRowIndex' = outputRowIndex + 1
                   /\ UNCHANGED <<missingCount, missingDetails>>
              ELSE /\ missingCount' = missingCount + 1
                   /\ outputFile' = SetSheetRow(outputFile, "MissingData",
                                                missingRowIndex, r.missingRow)
                   /\ missingDetails' =
                          IF Len(r.missingFields) > 0
                          THEN missingDetails \o MissingDetailLine(i + 1, r.missingFields)
                          ELSE missingDetails
                   /\ UNCHANGED <<successfulRows, outputRowIndex>>
    /\ i' = i + 1
    /\ UNCHANGED <<serverVars, authVars>>
    /\ UNCHANGED <<fieldConfig, file, fieldMappings, order, outputFormat, pc, rows,
                   normalizedHeaders, summary, uniqueID, uploads, result>>

\* the iteration for a data row: processRow, then one of the two sheets
ProcessDataRow ==
    /\ pc = "loop"
    /\ i < Len(rows)
    /\ i # 0
    /\ LET r == processRow(rows[i + 1], normalizedHeaders, fieldMappings, order, fieldConfig)
       IN  /\ processedRow' = r.processedRow
           /\ missingRow' = r.missingRow
           /\ rowMissingFields' = r.missingFields
           /\ rowSuccess' = r.isSuccess
           /\ IF r.isSuccess
              THEN /\ successfulRows' = successfulRows + 1
                   /\ outputFile' = SetSheetRow(outputFile, "ProcessedData",
                                                outputRowIndex, r.processedRow)
                   /\ outputRowIndex' = outputRowIndex + 1
                   /\ UNCHANGED <<missingCount, missingRowIndex, missingDetails>>
              ELSE /\ missingCount' = missingCount + 1
                   /\ outputFile' = SetSheetRow(outputFile, "MissingData",
                                                missingRowIndex, r.missingRow)
                   /\ missingRowIndex' = missingRowIndex + 1
                   /\ missingDetails' =
                          IF Len(r.missingFields) > 0
                          THEN missingDetails \o MissingDetailLine(i + 1, r.missingFields)
                          ELSE missingDetails
                   /\ UNCHANGED <<successfulRows, outputRowIndex>>
    /\ i' = i + 1
    /\ UNCHANGED <<serverVars, authVars>>
    /\ UNCHANGED <<fieldConfig, file, fieldMappings, order, outputFormat, pc, rows,
                   normalizedHeaders, summary, uniqueID, uploads, result>>

\* Summarize with the header row counted among the rows processed
SummarizeCountingHeader ==
    /\ pc = "loop"
    /\ i >= Len(rows)
    /\ summary' = generateProcessingSummary(Len(rows), successfulRows, missingCount,
                                            missingDetails)
    /\ pc' = "save"
    /\ UNCHANGED <<serverVars, authVars>>
    /\ UNCHANGED <<fieldConfig, file, fieldMappings, order, outputFormat, rows,
                   normalizedHeaders, outputFile, outputRowIndex, missingRowIndex, i,
                   successfulRows, missingCount, missingDetails, processedRow,
                   missingRow, rowMissingFields, rowSuccess, uniqueID, uploads, result>>

\* summary := generateProcessingSummary(len(rows)-1, ...)
Summarize ==
    /\ pc = "loop"
    /\ i >= Len(rows)
    /\ summary' = generateProcessingSummary(Len(rows) - 1, successfulRows, missingCount,
                                            missingDetails)
    /\ pc' = "save"
    /\ UNCHANGED <<serverVars, authVars>>
    /\ UNCHANGED <<fieldConfig, file, fieldMappings, order, outputFormat, rows,
                   normalizedHeaders, outputFile, outputRowIndex, missingRowIndex, i,
                   successfulRows, missingCount, missingDetails, processedRow,
                   missingRow, rowMissingFields, rowSuccess, uniqueID, uploads, result>>

\* Saved with the summary dropped when the save failed
SavedOrNothing(r) ==
    /\ uploads' = r.fs
    /\ result' = IF r.ok THEN <<summary, r.path>> ELSE <<EmptyStr, EmptyStr>>
    /\ pc' = "done"
    /\ UNCHANGED <<serverVars, authVars>>
    /\ UNCHANGED <<fieldConfig, file, fieldMappings, order, outputFormat, rows,
                   normalizedHeaders, outputFile, outputRowIndex, missingRowIndex, i,
                   successfulRows, missingCount, missingDetails, processedRow,
                   missingRow, rowMissingFields, rowSuccess, summary, uniqueID>>

\* Saved with the save tried again after it failed
SavedRetrying(r) ==
    /\ uploads' = r.fs
    /\ result' = <<summary, IF r.ok THEN r.path ELSE EmptyStr>>
    /\ pc' = IF r.ok THEN "done" ELSE "save"
    /\ UNCHANGED <<serverVars, authVars>>
    /\ UNCHANGED <<fieldConfig, file, fieldMappings, order, outputFormat, rows,
                   normalizedHeaders, outputFile, outputRowIndex, missingRowIndex, i,
                   successfulRows, missingCount, missingDetails, processedRow,
                   missingRow, rowMissingFields, rowSuccess, summary, uniqueID>>

\* the return after a save: the summary and the path, or "" when it failed
Saved(r) ==
    /\ uploads' = r.fs
    /\ result' = <<summary, IF r.ok THEN r.path ELSE EmptyStr>>
    /\ pc' = "done"
    /\ UNCHANGED <<serverVars, authVars>>
    /\ UNCHANGED <<fieldConfig, file, fieldMappings, order, outputFormat, rows,
                   normalizedHeaders, outputFile, outputRowIndex, missingRowIndex, i,
                   successfulRows, missingCount, missingDetails, processedRow,
                   missingRow, rowMissingFields, rowSuccess, summary, uniqueID>>

SaveCSV ==
    /\ pc = "save"
    /\ outputFormat = "csv"
    /\ \E failAt \in 0..2 :
          Saved(saveAsCSV(uploads, outputFile, order, outputRowIndex, missingRowIndex,
                          uniqueID, failAt))

SaveMarkdown ==
    /\ pc = "save"
    /\ outputFormat # "csv"
    /\ outputFormat = "markdown"
    /\ \E failAt \in 0..2 :
          Saved(saveAsMarkdown(uploads, outputFile, order, outputRowIndex,
                               missingRowIndex, summary, uniqueID, failAt))

\* SaveXLSX with the workbook kept for "xlsx" and "excel" only, any other
\* value rendered as Markdown
SaveXLSXNamedFormatsOnly ==
    /\ pc = "save"
    /\ outputFormat # "csv"
    /\ outputFormat # "markdown"
    /\ IF outputFormat \in {"xlsx", "excel"}
       THEN \E failAt \in 0..1 :
               Saved(saveAsXLSX(uploads, outputFile, ProcessedXLSXPath(uniqueID), failAt))
       ELSE \E failAt \in 0..2 :
               Saved(saveAsMarkdown(uploads, outputFile, order, outputRowIndex,
                                    missingRowIndex, summary, uniqueID, failAt))

SaveXLSX ==
    /\ pc = "save"
    /\ outputFormat # "csv"
    /\ outputFormat # "markdown"
    /\ \E failAt \in 0..1 :
          Saved(saveAsXLSX(uploads, outputFile, ProcessedXLSXPath(uniqueID), failAt))

Next ==
    \/ ReadInput
    \/ NoData
    \/ Prepare
    \/ SkipHeader
    \/ ProcessDataRow
    \/ Summarize
    \/ SaveCSV
    \/ SaveMarkdown
    \/ SaveXLSX

Spec == Init /\ [][Next]_vars

(***************************************************************************)
(* processRow on its own: the arguments are drawn from the requests, the   *)
(* header rows and the data rows of up to MaxCols cells                    *)
(***************************************************************************)
InitRow ==
    /\ fieldConfig \in Configs
    /\ \E rq \in Requests(fieldConfig) :
          /\ fieldMappings = rq.fieldMappings
          /\ order = rq.order
    /\ \E h \in SeqsUpTo(HeaderValues, MaxCols), d \in SeqsUpTo(CellValues, MaxCols) :
          /\ file = [path |-> PathXLSX, ok |-> TRUE, records |-> <<h, d>>]
          /\ rows = <<h, d>>
          /\ normalizedHeaders = normalizeHeaders(h)
    /\ outputFormat = "excel"
    /\ uniqueID \in UniqueIDs
    /\ uploads = <<>>
    /\ pc = "call"
    /\ outputFile = NoSheets
    /\ outputRowIndex = 0
    /\ missingRowIndex = 0
    /\ i = 1
    /\ successfulRows = 0
    /\ missingCount = 0
    /\ missingDetails = EmptyStr
    /\ processedRow = <<>>
    /\ missingRow = <<>>
    /\ rowMissingFields = <<>>
    /\ rowSuccess = FALSE
    /\ summary = EmptyStr
    /\ result = <<EmptyStr, EmptyStr>>
    /\ ServerIdle
    /\ AuthIdle

\* processedRow, missingRow, rowMissingFields, rowSuccess := processRow(row, ...)
CallProcessRow ==
    /\ pc = "call"
    /\ LET r == processRow(rows[i + 1], normalizedHeaders, fieldMappings, order, fieldConfig)
       IN  /\ processedRow' = r.processedRow
           /\ missingRow' = r.missingRow
           /\ rowMissingFields' = r.missingFields
           /\ rowSuccess' = r.isSuccess
    /\ pc' = "return"
    /\ UNCHANGED <<serverVars, authVars>>
    /\ UNCHANGED <<fieldConfig, file, fieldMappings, order, outputFormat, rows,
                   normalizedHeaders, outputFile, outputRowIndex, missingRowIndex, i,
                   successfulRows, missingCount, missingDetails, summary, uniqueID,
                   uploads, result>>

NextRow == CallProcessRow

SpecRow == InitRow /\ [][NextRow]_vars

(***************************************************************************)
(* processFile for every output format: a configuration of two fields and  *)
(* one of a field more than there are single-letter column names, small    *)
(* tables whose cells include a pipe character, and every kind of          *)
(* outputFormat value                                                      *)
(***************************************************************************)
\* a source cell with a pipe character in it
CellPipe == <<"a","|","b">>

\* one field more than the column names "A".."Z"
WideFields == Len(UpperChars) + 1

\* a configured field name "F<k>"
FieldNamed(k) == <<"F">> \o Itoa(k)

\* a configuration of WideFields fields: the first mandatory, the last the
\* optional Customer ID, the fields between optional
WideConfig ==
    [Fields |-> [k \in 1..WideFields |->
                    IF k = 1 THEN Field(ClientCode, TRUE)
                    ELSE IF k = WideFields THEN Field(CustomerID, FALSE)
                    ELSE Field(FieldNamed(k), FALSE)]]

\* a field name with a pipe character in it
FieldPipe == <<"A","|","B">>

\* a configuration whose second field is named with a pipe character
PipeConfig == [Fields |-> <<Field(ClientCode, TRUE), Field(FieldPipe, FALSE)>>]

OutputConfigs ==
    {[Fields |-> <<Field(ClientCode, TRUE), Field(CustomerID, FALSE)>>], WideConfig,
     PipeConfig}

\* both fields mapped, or the mandatory one only; the configured order
OutputRequests(fc) ==
    {[fieldMappings |-> m, order |-> GetOrderedFields(fc)] :
        m \in {mm \in MappingsOver(FieldNames, FALSE) : ClientCode \in DOMAIN mm}}

OutputHeaders == <<HdrPadded, HdrNoSpace>>
OutputDataRows == {<<CellValue, CellPipe>>, <<EmptyStr, CellPipe>>}
OutputTables ==
    {<<>>} \cup {<<OutputHeaders>> \o d : d \in SeqsUpTo(OutputDataRows, MaxRows)}

\* the values of the outputFormat parameter: the three named formats, the
\* handlers' defaults, the empty string and an unrecognised string
AllOutputFormats == OutputFormats \cup {"xlsx", "", "pdf"}

InitOutput ==
    /\ fieldConfig \in OutputConfigs
    /\ \E rq \in OutputRequests(fieldConfig) :
          /\ fieldMappings = rq.fieldMappings
          /\ order = rq.order
    /\ file \in FilesOf(OutputTables)
    /\ outputFormat \in AllOutputFormats
    /\ uniqueID \in UniqueIDs
    /\ uploads = <<>>
    /\ pc = "start"
    /\ LocalsUnset
    /\ ServerIdle
    /\ AuthIdle

SpecOutput == InitOutput /\ [][Next]_vars

\* the call of processFile goes on: it is at a later statement, or at the
\* next row of its loop
Proceeds ==
    /\ pc # "done"
    /\ pc' \in {"loaded", "loop", "save", "done"}
    /\ i' \in 0..(MaxRows + 1)
    /\ <<pc', i'>> # <<pc, i>>

\* processFile is straight-line code with loops over finite slices and no
\* blocking call: a call that has not returned goes on
SpecOutputLive == SpecOutput /\ WF_<<pc, i>>(Proceeds)

(***************************************************************************)
(* Package auth: InitAPIKeys and the middleware RequireAPIKey              *)
(***************************************************************************)
MaxKeys == 2    \* comma-separated pieces of API_KEYS

\* processFile is not running
ProcessIdle ==
    /\ file = [path |-> EmptyStr, ok |-> FALSE, records |-> <<>>]
    /\ fieldMappings = <<>>
    /\ order = <<>>
    /\ outputFormat = ""
    /\ uniqueID = EmptyStr
    /\ pc = "idle"
    /\ LocalsUnset

\* strings.Split(s, sep) for a one-character separator
RECURSIVE Split(_, _)
Split(s, sep) ==
    LET at == {k \in 1..Len(s) : s[k] = sep}
    IN  IF at = {} THEN <<s>>
        ELSE LET k == CHOOSE j \in at : \A m \in at : j <= m
             IN  <<SubSeq(s, 1, k - 1)>> \o Split(SubSeq(s, k + 1, Len(s)), sep)

KeyOne == <<"k","1">>
KeyOnePadded == <<" ","k","1"," ">>
KeyTwo == <<"k","2">>
KeyThree == <<"k","3">>

\* the values of API_KEYS: up to MaxKeys pieces joined by commas, a piece
\* being a key, a key with surrounding whitespace, a blank or nothing
APIKeysEnvs ==
    {Join(q, <<",">>) : q \in SeqsUpTo({KeyOne, KeyOnePadded, KeyTwo, CellBlank, EmptyStr},
                                       MaxKeys)}

\* r.Header.Get("X-API-Key"): "" when the header is absent or empty
XAPIKeys == {EmptyStr, KeyOne, KeyOnePadded, KeyTwo, KeyThree, CellBlank}

MsgKeyMissing == <<"A","P","I"," ","k","e","y"," ","i","s"," ","m","i","s","s","i","n","g">>
MsgKeyInvalid == <<"I","n","v","a","l","i","d"," ","A","P","I"," ","k","e","y">>
StatusUnauthorized == 401

\* http.Error(w, msg, code): the status and the message with a newline
httpError(msg, code) == [status |-> code, body |-> msg \o <<"\n">>]

InitAuth ==
    /\ fieldConfig = [Fields |-> <<Field(ClientCode, TRUE)>>]
    /\ uploads = <<>>
    /\ ProcessIdle
    /\ ServerIdle
    /\ apiKeysEnv \in APIKeysEnvs
    /\ apiKeys = {}
    /\ xAPIKey \in XAPIKeys
    /\ authPc = "init"
    /\ authResponse = [status |-> 0, body |-> EmptyStr]
    /\ nextCalled = FALSE

\* InitAPIKeys: the trimmed pieces of a non-empty API_KEYS
InitAPIKeys ==
    /\ authPc = "init"
    /\ apiKeys' = IF apiKeysEnv # EmptyStr
                  THEN {TrimSpace(Split(apiKeysEnv, ",")[k]) :
                           k \in 1..Len(Split(apiKeysEnv, ","))}
                  ELSE {}
    /\ authPc' = "serving"
    /\ UNCHANGED <<apiKeysEnv, xAPIKey, authResponse, nextCalled>>
    /\ UNCHANGED <<fieldConfig, file, fieldMappings, order, outputFormat, pc, rows,
                   normalizedHeaders, outputFile, outputRowIndex, missingRowIndex, i,
                   successfulRows, missingCount, missingDetails, processedRow,
                   missingRow, rowMissingFields, rowSuccess, summary, uniqueID, uploads,
                   result, serverVars>>

\* the middleware with the header trimmed before the lookup
RequireAPIKeyTrimmed ==
    /\ authPc = "serving"
    /\ IF xAPIKey = EmptyStr
       THEN /\ authResponse' = httpError(MsgKeyMissing, StatusUnauthorized)
            /\ nextCalled' = nextCalled
       ELSE IF TrimSpace(xAPIKey) \notin apiKeys
       THEN /\ authResponse' = httpError(MsgKeyInvalid, StatusUnauthorized)
            /\ nextCalled' = nextCalled
       ELSE /\ nextCalled' = TRUE
            /\ authResponse' = authResponse
    /\ authPc' = "served"
    /\ UNCHANGED <<apiKeysEnv, apiKeys, xAPIKey>>
    /\ UNCHANGED <<fieldConfig, file, fieldMappings, order, outputFormat, pc, rows,
                   normalizedHeaders, outputFile, outputRowIndex, missingRowIndex, i,
                   successfulRows, missingCount, missingDetails, processedRow,
                   missingRow, rowMissingFields, rowSuccess, summary, uniqueID, uploads,
                   result, serverVars>>

\* the handler RequireAPIKey returns, serving one request
RequireAPIKey ==
    /\ authPc = "serving"
    /\ IF xAPIKey = EmptyStr
       THEN /\ authResponse' = httpError(MsgKeyMissing, StatusUnauthorized)
            /\ nextCalled' = nextCalled
       ELSE IF xAPIKey \notin apiKeys
       THEN /\ authResponse' = httpError(MsgKeyInvalid, StatusUnauthorized)
            /\ nextCalled' = nextCalled
       ELSE /\ nextCalled' = TRUE
            /\ authResponse' = authResponse
    /\ authPc' = "served"
    /\ UNCHANGED <<apiKeysEnv, apiKeys, xAPIKey>>
    /\ UNCHANGED <<fieldConfig, file, fieldMappings, order, outputFormat, pc, rows,
                   normalizedHeaders, outputFile, outputRowIndex, missingRowIndex, i,
                   successfulRows, missingCount, missingDetails, processedRow,
                   missingRow, rowMissingFields, rowSuccess, summary, uniqueID, uploads,
                   result, serverVars>>

NextAuth == InitAPIKeys \/ RequireAPIKey

SpecAuth == InitAuth /\ [][NextAuth]_vars

(***************************************************************************)
(* The handlers handleUpload and handleAPIProcess, serving two requests at *)
(* once.  Each request is served by its own goroutine; the goroutines      *)
(* share the package variable fieldConfig, which they only read, and the   *)
(* directory ./uploads.  A handler's steps are its accesses to the         *)
(* directory: saving the upload, reading it back in processFile, writing   *)
(* each output artifact, and reading the artifact for the response.  The   *)
(* directory accepts every write here.                                     *)
(***************************************************************************)
\* the rows of the table classified in one go: "for i, row := range rows"
\* with its counters, row indices and the two sheets
RECURSIVE classifyRows(_, _, _, _, _, _, _)
classifyRows(acc, idx, table, nHeaders, mappings, ord, fc) ==
    IF idx >= Len(table) THEN acc
    ELSE LET r == processRow(table[idx + 1], nHeaders, mappings, ord, fc)
         IN  classifyRows(
                 IF r.isSuccess
                 THEN [acc EXCEPT
                          !.successfulRows = @ + 1,
                          !.outputFile = SetSheetRow(@, "ProcessedData",
                                                     acc.outputRowIndex, r.processedRow),
                          !.outputRowIndex = @ + 1]
                 ELSE [acc EXCEPT
                          !.missingCount = @ + 1,
                          !.outputFile = SetSheetRow(@, "MissingData",
                                                     acc.missingRowIndex, r.missingRow),
                          !.missingRowIndex = @ + 1,
                          !.missingDetails =
                              IF Len(r.missingFields) > 0
                              THEN @ \o MissingDetailLine(idx + 1, r.missingFields)
                              ELSE @],
                 idx + 1, table, nHeaders, mappings, ord, fc)

\* processFile from the read to the summary, for the file as it is read
processFileToSummary(f, mappings, ord, fc) ==
    LET r == readInputFile(f)
    IN  IF r.err # EmptyStr
        THEN [ok |-> FALSE, summary |-> ErrorOpeningFile \o <<":", " ">> \o r.err,
              outputPath |-> ErrorOpeningFile, outputFile |-> NoSheets,
              outputRowIndex |-> 0, missingRowIndex |-> 0]
        ELSE IF Len(r.rows) = 0
        THEN [ok |-> FALSE, summary |-> NoDataFound \o <<".">>,
              outputPath |-> NoDataFound, outputFile |-> NoSheets,
              outputRowIndex |-> 0, missingRowIndex |-> 0]
        ELSE LET c == classifyRows([outputFile |-> createOutputWorkbook(ord),
                                    outputRowIndex |-> 2, missingRowIndex |-> 2,
                                    successfulRows |-> 0, missingCount |-> 0,
                                    missingDetails |-> EmptyStr],
                                   1, r.rows, normalizeHeaders(r.rows[1]), mappings, ord, fc)
             IN  [ok |-> TRUE,
                  summary |-> generateProcessingSummary(Len(r.rows) - 1, c.successfulRows,
                                                        c.missingCount, c.missingDetails),
                  outputPath |-> EmptyStr, outputFile |-> c.outputFile,
                  outputRowIndex |-> c.outputRowIndex,
                  missingRowIndex |-> c.missingRowIndex]

\* filepath.Join(tempDir, uniqueID + "_" + filename): the file of that name
\* in ./uploads
tempFilePathShared(id, filename) == UploadsDir \o filename

tempFilePathOf(id, filename) == UploadsDir \o id \o <<"_">> \o filename

\* filepath.Base
Base(path) ==
    LET at == {k \in 1..Len(path) : path[k] = "/"}
    IN  IF path = EmptyStr THEN <<".">>
        ELSE IF at = {} THEN path
        ELSE SubSeq(path, (CHOOSE j \in at : \A m \in at : j >= m) + 1, Len(path))

\* the orders in which ranging over a Go map can yield the keys
Orderings(keys) ==
    {q \in [1..Cardinality(keys) -> keys] : SeqToSet(q) = keys}

Notes == <<"N","o","t","e","s">>

\* the server's configuration: one mandatory field
ServerConfig == [Fields |-> <<Field(ClientCode, TRUE)>>]

\* the mapping a request sends: the configured field and two more keys
ServerMappings ==
    {[n \in {ClientCode, CustomerID, Notes} |->
         IF n = CustomerID THEN MapNoSpace ELSE MapAccountNumber]}

\* an uploaded file: its name and what a parser finds in it
ServerFiles ==
    {[filename |-> PathCSV, ok |-> TRUE, records |-> <<OutputHeaders, d>>] :
        d \in OutputDataRows}
    \cup {[filename |-> PathTXT, ok |-> TRUE, records |-> <<>>]}

\* the form value outputFormat; "" stands for the value left out
ServerFormats == {"csv", "markdown", ""}

ServerRequests ==
    UNION {{[handler |-> h, file |-> f, mappings |-> m, outputFormat |-> o] :
               h \in {"upload", "api"},
               m \in ServerMappings,
               o \in IF f.filename = PathTXT THEN {""} ELSE ServerFormats}
           : f \in ServerFiles}

\* what generateUniqueID can return: "<UnixNano>_<8 hex digits>"; the same
\* value twice is not excluded
ServerIDs == {<<"1","7","_","0","0","0","0","0","0","a","b">>,
              <<"1","7","_","0","0","0","0","0","0","a","c">>}

RequestIDs == {1, 2}

handlerStart ==
    [pc |-> "received", uniqueID |-> EmptyStr, tempFilePath |-> EmptyStr,
     fieldMappings |-> <<>>, order |-> <<>>, outputFormat |-> "",
     summary |-> EmptyStr, outputPath |-> EmptyStr, outputFile |-> NoSheets,
     outputRowIndex |-> 0, missingRowIndex |-> 0,
     response |-> [status |-> 0, body |-> EmptyStr]]

InitServer ==
    /\ fieldConfig = ServerConfig
    /\ uploads = <<>>
    /\ ProcessIdle
    /\ AuthIdle
    /\ requests \in [RequestIDs -> ServerRequests]
    /\ handlers = [p \in RequestIDs |-> handlerStart]
    /\ DiskIdle

MsgInvalidFileType ==
    <<"I","n","v","a","l","i","d"," ","f","i","l","e"," ","t","y","p","e","."," ",
      "O","n","l","y"," ",".","c","s","v"," ","a","n","d"," ",".","x","l","s","x"," ",
      "f","i","l","e","s"," ","a","r","e"," ","a","l","l","o","w","e","d">>
MsgFailedOutput ==
    <<"F","a","i","l","e","d"," ","t","o"," ","g","e","n","e","r","a","t","e"," ",
      "o","u","t","p","u","t"," ","f","i","l","e">>

\* the modification times after the file at path was created or written
Touch(times, path) ==
    [q \in (DOMAIN times) \cup {path} |-> IF q = path THEN clock ELSE times[q]]

\* what the server's state keeps of the steps below
ServerStep ==
    UNCHANGED <<fieldConfig, file, fieldMappings, order, outputFormat, pc, rows,
                normalizedHeaders, outputFile, outputRowIndex, missingRowIndex, i,
                successfulRows, missingCount, missingDetails, processedRow,
                missingRow, rowMissingFields, rowSuccess, summary, uniqueID, result,
                requests, authVars, download, clock, cleanup>>

\* both handlers: the file type check
RejectFileType(p) ==
    /\ handlers[p].pc = "received"
    /\ ~HasSuffix(requests[p].file.filename, ExtXLSX)
    /\ ~HasSuffix(requests[p].file.filename, ExtCSV)
    /\ handlers' = [handlers EXCEPT ![p].response = [status |-> 400,
                                                      body |-> MsgInvalidFileType],
                                    ![p].pc = "done"]
    /\ uploads' = uploads
    /\ modTime' = modTime
    /\ ServerStep

\* handleUpload with the unknown fields appended to the configuration's own
\* list of fields instead of a copy of it
handleUploadAppendingToConfig(p) ==
    /\ handlers[p].pc = "received"
    /\ requests[p].handler = "upload"
    /\ HasSuffix(requests[p].file.filename, ExtXLSX)
          \/ HasSuffix(requests[p].file.filename, ExtCSV)
    /\ \E id \in ServerIDs :
       \E appended \in Orderings((DOMAIN requests[p].mappings)
                                 \ SeqToSet(GetOrderedFields(fieldConfig))) :
          LET form == requests[p].mappings
              kept == {n \in DOMAIN form : form[n] # EmptyStr}
          IN  /\ handlers' = [handlers EXCEPT
                     ![p].uniqueID = id,
                     ![p].tempFilePath = tempFilePathOf(id, requests[p].file.filename),
                     ![p].fieldMappings = [n \in kept |-> form[n]],
                     ![p].order = GetOrderedFields(fieldConfig) \o appended,
                     ![p].outputFormat = IF requests[p].outputFormat = "" THEN "excel"
                                         ELSE requests[p].outputFormat,
                     ![p].pc = "saved"]
              /\ fieldConfig' = [Fields |-> fieldConfig.Fields
                                    \o [k \in 1..Len(appended) |-> Field(appended[k], FALSE)]]
              /\ uploads' = WriteFile(uploads,
                                      tempFilePathOf(id, requests[p].file.filename),
                                      [ok |-> requests[p].file.ok,
                                       records |-> requests[p].file.records])
              /\ modTime' = Touch(modTime, tempFilePathOf(id, requests[p].file.filename))
    /\ UNCHANGED <<file, fieldMappings, order, outputFormat, pc, rows,
                   normalizedHeaders, outputFile, outputRowIndex, missingRowIndex, i,
                   successfulRows, missingCount, missingDetails, processedRow,
                   missingRow, rowMissingFields, rowSuccess, summary, uniqueID, result,
                   requests, authVars, download, clock, cleanup>>

\* handleUpload from generateUniqueID to the call of processFile: the upload
\* is saved, a form value "mapping_<field>" that is not empty becomes a
\* mapping, and a field that is not in the order is appended to it, in the
\* order in which the range over the form's map yields the keys
handleUpload(p) ==
    /\ handlers[p].pc = "received"
    /\ requests[p].handler = "upload"
    /\ HasSuffix(requests[p].file.filename, ExtXLSX)
          \/ HasSuffix(requests[p].file.filename, ExtCSV)
    /\ \E id \in ServerIDs :
       \E appended \in Orderings((DOMAIN requests[p].mappings)
                                 \ SeqToSet(GetOrderedFields(fieldConfig))) :
          LET form == requests[p].mappings
              kept == {n \in DOMAIN form : form[n] # EmptyStr}
          IN  /\ handlers' = [handlers EXCEPT
                     ![p].uniqueID = id,
                     ![p].tempFilePath = tempFilePathOf(id, requests[p].file.filename),
                     ![p].fieldMappings = [n \in kept |-> form[n]],
                     ![p].order = GetOrderedFields(fieldConfig) \o appended,
                     ![p].outputFormat = IF requests[p].outputFormat = "" THEN "excel"
                                         ELSE requests[p].outputFormat,
                     ![p].pc = "saved"]
              /\ uploads' = WriteFile(uploads,
                                      tempFilePathOf(id, requests[p].file.filename),
                                      [ok |-> requests[p].file.ok,
                                       records |-> requests[p].file.records])
              /\ modTime' = Touch(modTime, tempFilePathOf(id, requests[p].file.filename))
    /\ ServerStep

\* handleAPIProcess from the JSON mappings to the call of processFile: the
\* mappings are the JSON object, the order is the configured one
handleAPIProcess(p) ==
    /\ handlers[p].pc = "received"
    /\ requests[p].handler = "api"
    /\ HasSuffix(requests[p].file.filename, ExtXLSX)
          \/ HasSuffix(requests[p].file.filename, ExtCSV)
    /\ \E id \in ServerIDs :
          /\ handlers' = [handlers EXCEPT
                 ![p].uniqueID = id,
                 ![p].tempFilePath = tempFilePathOf(id, requests[p].file.filename),
                 ![p].fieldMappings = requests[p].mappings,
                 ![p].order = GetOrderedFields(fieldConfig),
                 ![p].outputFormat = IF requests[p].outputFormat = "" THEN "xlsx"
                                     ELSE requests[p].outputFormat,
                 ![p].pc = "saved"]
          /\ uploads' = WriteFile(uploads,
                                  tempFilePathOf(id, requests[p].file.filename),
                                  [ok |-> requests[p].file.ok,
                                   records |-> requests[p].file.records])
          /\ modTime' = Touch(modTime, tempFilePathOf(id, requests[p].file.filename))
    /\ ServerStep

\* processFile: the saved upload is read and its rows are classified
processFileRead(p) ==
    /\ handlers[p].pc = "saved"
    /\ LET h == handlers[p]
           r == processFileToSummary([path |-> h.tempFilePath,
                                      ok |-> uploads[h.tempFilePath].ok,
                                      records |-> uploads[h.tempFilePath].records],
                                     h.fieldMappings, h.order, fieldConfig)
       IN  handlers' = [handlers EXCEPT
               ![p].summary = r.summary,
               ![p].outputPath = r.outputPath,
               ![p].outputFile = r.outputFile,
               ![p].outputRowIndex = r.outputRowIndex,
               ![p].missingRowIndex = r.missingRowIndex,
               ![p].pc = IF r.ok THEN "classified" ELSE "processed"]
    /\ uploads' = uploads
    /\ modTime' = modTime
    /\ ServerStep

\* processFile: the first (for the workbook, the only) artifact is written
processFileSave(p) ==
    /\ handlers[p].pc = "classified"
    /\ LET h == handlers[p]
           s == IF h.outputFormat = "csv"
                THEN saveAsCSV(uploads, h.outputFile, h.order, h.outputRowIndex,
                               h.missingRowIndex, h.uniqueID, 2)
                ELSE IF h.outputFormat = "markdown"
                THEN saveAsMarkdown(uploads, h.outputFile, h.order, h.outputRowIndex,
                                    h.missingRowIndex, h.summary, h.uniqueID, 2)
                ELSE saveAsXLSX(uploads, h.outputFile, ProcessedXLSXPath(h.uniqueID), 0)
       IN  /\ uploads' = s.fs
           /\ modTime' = Touch(modTime, s.path)
           /\ handlers' = [handlers EXCEPT
                  ![p].outputPath = s.path,
                  ![p].pc = IF h.outputFormat \in {"csv", "markdown"}
                            THEN "saving" ELSE "processed"]
    /\ ServerStep

\* processFile: the missing-data file of the pair is written
processFileSaveMissing(p) ==
    /\ handlers[p].pc = "saving"
    /\ LET h == handlers[p]
           s == IF h.outputFormat = "csv"
                THEN [path |-> MissingCSVPath(h.uniqueID),
                      fs |-> saveAsCSV(<<>>, h.outputFile, h.order, h.outputRowIndex,
                                       h.missingRowIndex, h.uniqueID, 0).fs]
                ELSE [path |-> MissingMDPath(h.uniqueID),
                      fs |-> saveAsMarkdown(<<>>, h.outputFile, h.order,
                                            h.outputRowIndex, h.missingRowIndex,
                                            h.summary, h.uniqueID, 0).fs]
       IN  /\ uploads' = WriteFile(uploads, s.path, s.fs[s.path])
           /\ modTime' = Touch(modTime, s.path)
    /\ handlers' = [handlers EXCEPT ![p].pc = "processed"]
    /\ ServerStep

\* response["missingFilename"], set for the csv and markdown formats
missingFilenameOf(format, id) ==
    IF format = "csv" THEN [missingFilename |-> Base(MissingCSVPath(id))]
    ELSE IF format = "markdown" THEN [missingFilename |-> Base(MissingMDPath(id))]
    ELSE <<>>

\* handleUpload after processFile: the JSON response with the summary and
\* the names of the artifacts
respondUpload(p) ==
    /\ handlers[p].pc = "processed"
    /\ requests[p].handler = "upload"
    /\ LET h == handlers[p]
       IN  handlers' = [handlers EXCEPT
               ![p].response =
                   [status |-> 200,
                    body |-> [success |-> TRUE, summary |-> h.summary,
                              outputFilename |-> Base(h.outputPath)]
                             @@ missingFilenameOf(h.outputFormat, h.uniqueID)],
               ![p].pc = "done"]
    /\ uploads' = uploads
    /\ modTime' = modTime
    /\ ServerStep

\* handleAPIProcess sending its answer without os.Stat on the returned path
respondAPIWithoutStat(p) ==
    /\ handlers[p].pc = "processed"
    /\ requests[p].handler = "api"
    /\ LET h == handlers[p]
       IN  handlers' = [handlers EXCEPT
               ![p].response =
                   [status |-> 200,
                    body |-> [summary |-> h.summary,
                              filename |-> Base(h.outputPath),
                              content |-> IF h.outputPath \in DOMAIN uploads
                                          THEN uploads[h.outputPath] ELSE EmptyStr]],
               ![p].pc = "done"]
    /\ uploads' = uploads
    /\ modTime' = modTime
    /\ ServerStep

\* handleAPIProcess after processFile: the artifact is read and sent, or
\* the error when there is no file at the returned path
respondAPI(p) ==
    /\ handlers[p].pc = "processed"
    /\ requests[p].handler = "api"
    /\ LET h == handlers[p]
       IN  handlers' = [handlers EXCEPT
               ![p].response =
                   IF h.outputPath \in DOMAIN uploads
                   THEN [status |-> 200,
                         body |-> [summary |-> h.summary,
                                   filename |-> Base(h.outputPath),
                                   content |-> uploads[h.outputPath]]]
                   ELSE [status |-> 500, body |-> MsgFailedOutput],
               ![p].pc = "done"]
    /\ uploads' = uploads
    /\ modTime' = modTime
    /\ ServerStep

NextServer ==
    \E p \in DOMAIN handlers :
        \/ RejectFileType(p)
        \/ handleUpload(p)
        \/ handleAPIProcess(p)
        \/ processFileRead(p)
        \/ processFileSave(p)
        \/ processFileSaveMissing(p)
        \/ respondUpload(p)
        \/ respondAPI(p)

SpecServer == InitServer /\ [][NextServer]_vars

(***************************************************************************)
(* handleDownload, and one request served with every kind of input: a      *)
(* file that cannot be read, an empty file, uploads named like the         *)
(* artifacts, saves that fail                                              *)
(***************************************************************************)
\* strings.Contains
stringsContains(s, substr) ==
    \E k \in 0..(Len(s) - Len(substr)) : SubSeq(s, k + 1, k + Len(substr)) = substr

\* strings.ContainsAny
stringsContainsAny(s, chars) == \E k \in 1..Len(s) : s[k] \in chars

\* filepath.Clean on the elements of a relative path: empty elements and "."
\* are dropped, ".." drops the element before it
RECURSIVE cleanElements(_, _)
cleanElements(kept, rest) ==
    IF rest = <<>> THEN kept
    ELSE IF Head(rest) \in {EmptyStr, <<".">>}
    THEN cleanElements(kept, Tail(rest))
    ELSE IF Head(rest) = <<".", ".">> /\ kept # <<>> /\ kept[Len(kept)] # <<".", ".">>
    THEN cleanElements(SubSeq(kept, 1, Len(kept) - 1), Tail(rest))
    ELSE cleanElements(Append(kept, Head(rest)), Tail(rest))

\* filepath.Clean for a relative path
Clean(path) ==
    LET elements == cleanElements(<<>>, Split(path, "/"))
    IN  IF elements = <<>> THEN <<".">> ELSE Join(elements, <<"/">>)

\* filepath.Join(dir, name)
filepathJoin(dir, name) == Clean(dir \o <<"/">> \o name)

\* the configuration file InitConfig reads, a file of the working directory
\* that is not in ./uploads
ConfigPath == <<".","/","c","o","n","f","i","g","/","f","i","e","l","d","_",
                "c","o","n","f","i","g",".","j","s","o","n">>
StaticFiles == {ConfigPath}

\* the directories of the working directory, as cleaned paths
Directories == {<<".">>, <<"u","p","l","o","a","d","s">>, <<"c","o","n","f","i","g">>}

\* the name under which the model keeps the file a path leads to
DiskKey(path) == <<".", "/">> \o Clean(path)

\* os.Stat(path) finds something
Exists(fs, path) ==
    \/ Clean(path) \in Directories
    \/ DiskKey(path) \in StaticFiles
    \/ DiskKey(path) \in DOMAIN fs

MsgMissingFileParameter ==
    <<"M","i","s","s","i","n","g"," ","f","i","l","e"," ","p","a","r","a","m","e","t","e","r">>
MsgInvalidFilePath ==
    <<"I","n","v","a","l","i","d"," ","f","i","l","e"," ","p","a","t","h">>
MsgFileNotFound == <<"F","i","l","e"," ","n","o","t"," ","f","o","u","n","d">>

\* what the configuration file holds, as far as a download shows it
ConfigContent == [config |-> ServerConfig]

\* http.ServeFile for the route /download: a directory is answered with a
\* redirect to the path with a slash added, a file with its content
ServeFile(fs, name) ==
    IF Clean(name) \in Directories
    THEN [served |-> EmptyStr, response |-> [status |-> 301, body |-> EmptyStr]]
    ELSE [served |-> DiskKey(name),
          response |-> [status |-> 200,
                        body |-> IF DiskKey(name) \in DOMAIN fs THEN fs[DiskKey(name)]
                                 ELSE ConfigContent]]

NameNoFile == <<"n","o","f","i","l","e",".","c","s","v">>

\* the values of the query parameter "file": none, names with "..", "/" or
\* "\", the directory itself, a name that is no file, and the names of the
\* entries of ./uploads
DownloadParams(fs) ==
    {EmptyStr, <<".", ".">>, <<".", ".", "/">> \o SubSeq(ConfigPath, 3, Len(ConfigPath)),
     <<"a", "/", "b">>, <<"a", "\\", "b">>, <<".">>, NameNoFile}
    \cup {Base(path) : path \in DOMAIN fs}

\* handleDownload without the check of the parameter for "..", "/" and "\"
handleDownloadUnchecked ==
    /\ download.pc = "idle"
    /\ \E f \in DownloadParams(uploads) :
          LET filePath == filepathJoin(<<".","/","u","p","l","o","a","d","s">>, f)
              answer ==
                  IF f = EmptyStr
                  THEN [served |-> EmptyStr,
                        response |-> httpError(MsgMissingFileParameter, 400)]
                  ELSE IF ~Exists(uploads, filePath)
                  THEN [served |-> EmptyStr, response |-> httpError(MsgFileNotFound, 404)]
                  ELSE ServeFile(uploads, filePath)
          IN  download' = [pc |-> "done", file |-> f, served |-> answer.served,
                           response |-> answer.response]
    /\ UNCHANGED <<fieldConfig, file, fieldMappings, order, outputFormat, pc, rows,
                   normalizedHeaders, outputFile, outputRowIndex, missingRowIndex, i,
                   successfulRows, missingCount, missingDetails, processedRow,
                   missingRow, rowMissingFields, rowSuccess, summary, uniqueID, result,
                   uploads, requests, handlers, authVars, modTime, clock, cleanup>>

\* handleDownload
handleDownload ==
    /\ download.pc = "idle"
    /\ \E f \in DownloadParams(uploads) :
          LET filePath == filepathJoin(<<".","/","u","p","l","o","a","d","s">>, f)
              answer ==
                  IF f = EmptyStr
                  THEN [served |-> EmptyStr,
                        response |-> httpError(MsgMissingFileParameter, 400)]
                  ELSE IF stringsContains(f, <<".", ".">>)
                          \/ stringsContainsAny(f, {"/", "\\"})
                  THEN [served |-> EmptyStr,
                        response |-> httpError(MsgInvalidFilePath, 400)]
                  ELSE IF ~Exists(uploads, filePath)
                  THEN [served |-> EmptyStr, response |-> httpError(MsgFileNotFound, 404)]
                  ELSE ServeFile(uploads, filePath)
          IN  download' = [pc |-> "done", file |-> f, served |-> answer.served,
                           response |-> answer.response]
    /\ UNCHANGED <<fieldConfig, file, fieldMappings, order, outputFormat, pc, rows,
                   normalizedHeaders, outputFile, outputRowIndex, missingRowIndex, i,
                   successfulRows, missingCount, missingDetails, processedRow,
                   missingRow, rowMissingFields, rowSuccess, summary, uniqueID, result,
                   uploads, requests, handlers, authVars, modTime, clock, cleanup>>

\* processFile: saveAsCSV, saveAsMarkdown or saveAsXLSX returns an error
\* before a file is written
processFileSaveFails(p) ==
    /\ handlers[p].pc = "classified"
    /\ handlers' = [handlers EXCEPT ![p].outputPath = EmptyStr, ![p].pc = "processed"]
    /\ uploads' = uploads
    /\ modTime' = modTime
    /\ ServerStep

\* processFile: the missing-data file of the pair cannot be created
processFileSaveMissingFails(p) ==
    /\ handlers[p].pc = "saving"
    /\ handlers' = [handlers EXCEPT ![p].outputPath = EmptyStr, ![p].pc = "processed"]
    /\ uploads' = uploads
    /\ modTime' = modTime
    /\ ServerStep

MsgFailedRead ==
    <<"F","a","i","l","e","d"," ","t","o"," ","r","e","a","d"," ",
      "o","u","t","p","u","t"," ","f","i","l","e">>

\* handleAPIProcess: os.Stat finds the artifact and os.ReadFile fails
respondAPIReadFails(p) ==
    /\ handlers[p].pc = "processed"
    /\ requests[p].handler = "api"
    /\ handlers[p].outputPath \in DOMAIN uploads
    /\ handlers' = [handlers EXCEPT
           ![p].response = [status |-> 500, body |-> MsgFailedRead],
           ![p].pc = "done"]
    /\ uploads' = uploads
    /\ modTime' = modTime
    /\ ServerStep

NameProcessedCSV == Base(ProcessedCSVPath(EmptyStr))
NameProcessedXLSX == Base(ProcessedXLSXPath(EmptyStr))

\* uploaded files: one that reads well, one that cannot be parsed, an empty
\* one, two named like an artifact without its unique ID, one of a type
\* that is refused
DownloadFiles ==
    {[filename |-> n, ok |-> TRUE, records |-> <<OutputHeaders, <<CellValue, CellPipe>>>>] :
        n \in {PathCSV, SubSeq(NameProcessedCSV, 2, Len(NameProcessedCSV)),
               SubSeq(NameProcessedXLSX, 2, Len(NameProcessedXLSX))}}
    \cup {[filename |-> PathCSV, ok |-> FALSE, records |-> <<>>],
          [filename |-> PathCSV, ok |-> TRUE, records |-> <<>>],
          [filename |-> PathTXT, ok |-> TRUE, records |-> <<>>]}

DownloadRequests ==
    UNION {{[handler |-> h, file |-> f, mappings |-> m, outputFormat |-> o] :
               h \in {"upload", "api"},
               m \in ServerMappings,
               o \in IF f.filename = PathTXT THEN {""} ELSE ServerFormats}
           : f \in DownloadFiles}

InitDownload ==
    /\ fieldConfig = ServerConfig
    /\ uploads = <<>>
    /\ ProcessIdle
    /\ AuthIdle
    /\ requests \in [{1} -> DownloadRequests]
    /\ handlers = [p \in {1} |-> handlerStart]
    /\ DiskIdle

NextDownload ==
    \/ NextServer
    \/ \E p \in DOMAIN handlers : processFileSaveFails(p)
    \/ \E p \in DOMAIN handlers : processFileSaveMissingFails(p)
    \/ \E p \in DOMAIN handlers : respondAPIReadFails(p)
    \/ handleDownload

SpecDownload == InitDownload /\ [][NextDownload]_vars

(***************************************************************************)
(* cleanupOldFiles and startFileCleanupRoutine, beside one request.  Time  *)
(* is counted in hours.  A request is served within one step of the clock  *)
(***************************************************************************)
\* 24 * time.Hour, in hours
MaxAge == 24

\* how far the clock moves in one step, and where the model stops it
TickHours == 12
MaxClock == 36

\* the characters of a file name in the order of their bytes
ByteOrder ==
    <<".", "/", "0", "1", "2", "3", "4", "5", "6", "7", "8", "9", "_",
      "a", "b", "c", "d", "e", "f", "g", "h", "i", "j", "k", "l", "m",
      "n", "o", "p", "q", "r", "s", "t", "u", "v", "w", "x", "y", "z">>

ByteOf(c) == CHOOSE k \in 1..Len(ByteOrder) : ByteOrder[k] = c

\* a < b for two strings, compared byte by byte
RECURSIVE stringLess(_, _)
stringLess(a, b) ==
    IF b = <<>> THEN FALSE
    ELSE IF a = <<>> THEN TRUE
    ELSE IF Head(a) # Head(b) THEN ByteOf(Head(a)) < ByteOf(Head(b))
    ELSE stringLess(Tail(a), Tail(b))

\* os.ReadDir: the entries of the directory sorted by name
RECURSIVE ReadDir(_)
ReadDir(paths) ==
    IF paths = {} THEN <<>>
    ELSE LET first == CHOOSE q \in paths : \A other \in paths \ {q} : stringLess(q, other)
         IN  <<first>> \o ReadDir(paths \ {first})

\* a directory inside ./uploads
OldDirectory == UploadsDir \o <<"o", "l", "d">>
UploadsSubdirectories == {OldDirectory}

\* DirEntry.IsDir
IsDir(path) == path \in UploadsSubdirectories

\* what is in ./uploads when the server starts: a directory, an artifact
\* written 36 hours ago and one written 24 hours ago
OldID == <<"1","6","_","0","0","0","0","0","0","0","a">>
StaleFile == ProcessedCSVPath(OldID)
DayOldFile == MissingCSVPath(OldID)
StartTimes == (OldDirectory :> (0 - 36)) @@ (StaleFile :> (0 - 36)) @@ (DayOldFile :> (0 - 24))

CleanupUnchanged ==
    UNCHANGED <<fieldConfig, file, fieldMappings, order, outputFormat, pc, rows,
                normalizedHeaders, outputFile, outputRowIndex, missingRowIndex, i,
                successfulRows, missingCount, missingDetails, processedRow,
                missingRow, rowMissingFields, rowSuccess, summary, uniqueID, result,
                requests, handlers, authVars, download>>

\* time passes; the ticker of startFileCleanupRoutine has fired since
Tick ==
    /\ clock + TickHours <= MaxClock
    /\ \A p \in DOMAIN handlers : handlers[p].pc \in {"received", "done"}
    /\ clock' = clock + TickHours
    /\ cleanup' = [cleanup EXCEPT !.due = TRUE]
    /\ UNCHANGED <<uploads, modTime>>
    /\ CleanupUnchanged

\* startFileCleanupRoutine calls cleanupOldFiles, at startup and when the
\* ticker has fired; cleanupOldFiles reads the directory and the time
cleanupOldFiles ==
    /\ cleanup.pc = "idle"
    /\ cleanup.due
    /\ cleanup' = [pc |-> "loop", due |-> FALSE, now |-> clock,
                   files |-> ReadDir(DOMAIN uploads)]
    /\ UNCHANGED <<uploads, modTime, clock>>
    /\ CleanupUnchanged

\* cleanupOldFiles, one entry, with the age test passed when the age equals
\* maxAge
cleanupEntryAtMaxAge ==
    /\ cleanup.pc = "loop"
    /\ cleanup.files # <<>>
    /\ LET filePath == Head(cleanup.files)
       IN  cleanup' = [cleanup EXCEPT
               !.pc = IF /\ ~IsDir(filePath)
                         /\ filePath \in DOMAIN modTime
                         /\ cleanup.now - modTime[filePath] >= MaxAge
                      THEN "remove" ELSE "loop",
               !.files = IF /\ ~IsDir(filePath)
                            /\ filePath \in DOMAIN modTime
                            /\ cleanup.now - modTime[filePath] >= MaxAge
                         THEN cleanup.files ELSE Tail(cleanup.files)]
    /\ UNCHANGED <<uploads, modTime, clock>>
    /\ CleanupUnchanged

\* cleanupOldFiles, one entry of the loop up to the age test: a directory is
\* skipped, so is an entry whose Info fails, so is a file that is not older
\* than maxAge
cleanupEntry ==
    /\ cleanup.pc = "loop"
    /\ cleanup.files # <<>>
    /\ LET filePath == Head(cleanup.files)
       IN  cleanup' = [cleanup EXCEPT
               !.pc = IF /\ ~IsDir(filePath)
                         /\ filePath \in DOMAIN modTime
                         /\ cleanup.now - modTime[filePath] > MaxAge
                      THEN "remove" ELSE "loop",
               !.files = IF /\ ~IsDir(filePath)
                            /\ filePath \in DOMAIN modTime
                            /\ cleanup.now - modTime[filePath] > MaxAge
                         THEN cleanup.files ELSE Tail(cleanup.files)]
    /\ UNCHANGED <<uploads, modTime, clock>>
    /\ CleanupUnchanged

\* cleanupOldFiles: os.Remove of the entry that passed the age test
cleanupRemove ==
    /\ cleanup.pc = "remove"
    /\ LET filePath == Head(cleanup.files)
       IN  /\ uploads' = [q \in (DOMAIN uploads) \ {filePath} |-> uploads[q]]
           /\ modTime' = [q \in (DOMAIN modTime) \ {filePath} |-> modTime[q]]
    /\ cleanup' = [cleanup EXCEPT !.pc = "loop", !.files = Tail(cleanup.files)]
    /\ UNCHANGED clock
    /\ CleanupUnchanged

\* cleanupOldFiles returns; the routine waits for the ticker
cleanupReturn ==
    /\ cleanup.pc = "loop"
    /\ cleanup.files = <<>>
    /\ cleanup' = [cleanup EXCEPT !.pc = "idle"]
    /\ UNCHANGED <<uploads, modTime, clock>>
    /\ CleanupUnchanged

CleanupRequests ==
    {r \in DownloadRequests : r.file.ok /\ r.file.filename \in {PathCSV, PathTXT}}

InitCleanup ==
    /\ fieldConfig = ServerConfig
    /\ uploads = [q \in DOMAIN StartTimes |-> EmptyStr]
    /\ ProcessIdle
    /\ AuthIdle
    /\ requests \in [{1} -> CleanupRequests]
    /\ handlers = [p \in {1} |-> handlerStart]
    /\ download = [pc |-> "idle", file |-> EmptyStr, served |-> EmptyStr,
                   response |-> [status |-> 0, body |-> EmptyStr]]
    /\ modTime = StartTimes
    /\ clock = 0
    /\ cleanup = [pc |-> "idle", due |-> TRUE, now |-> 0, files |-> <<>>]

NextCleanup ==
    \/ NextServer
    \/ Tick
    \/ cleanupOldFiles
    \/ cleanupEntry
    \/ cleanupRemove
    \/ cleanupReturn

SpecCleanup == InitCleanup /\ [][NextCleanup]_vars

(***************************************************************************)
(* What the specification says of a row, stated apart from processRow      *)
(***************************************************************************)
\* a string after trimming surrounding whitespace and lower-casing
Normalised(str) == ToLower(TrimSpace(str))

\* the field is configured as mandatory
Mandatory(f) ==
    \E k \in 1..Len(fieldConfig.Fields) :
        fieldConfig.Fields[k].Name = f /\ fieldConfig.Fields[k].IsMandatory

\* the column the request maps the field to; empty when it maps none
MappedTo(f) == IF f \in DOMAIN fieldMappings THEN fieldMappings[f] ELSE EmptyStr

HasMapping(f) == MappedTo(f) # EmptyStr

\* the columns of the header row whose header matches the field's mapping
MatchingColumns(f) ==
    {j \in 1..Len(rows[1]) : Normalised(rows[1][j]) = Normalised(MappedTo(f))}

LeftmostColumn(f) == CHOOSE j \in MatchingColumns(f) : \A m \in MatchingColumns(f) : j <= m

Blank(cell) == \A k \in 1..Len(cell) : IsSpace(cell[k])

\* the field's mapping leads to a non-blank cell of the data row
Resolves(f, dataRow) ==
    /\ MatchingColumns(f) # {}
    /\ LeftmostColumn(f) <= Len(dataRow)
    /\ ~Blank(dataRow[LeftmostColumn(f)])

\* an optional field is looked up only when the request maps it
LookedUp(f) == Mandatory(f) \/ HasMapping(f)

Complete(dataRow) ==
    \A k \in 1..Len(order) : Mandatory(order[k]) => Resolves(order[k], dataRow)

\* the data row processRow was called with
CurrentRow == rows[i + 1]

Returned == pc = "return"

(***************************************************************************)
(* C1: processRow reports a row complete exactly when every mandatory      *)
(* field of the order resolves (its normalised mapping matches a header,   *)
(* the leftmost such column lies within the row and its cell is not blank  *)
(* after trimming); optional fields never make a row incomplete.           *)
(***************************************************************************)
C1_CompleteIffMandatoryResolved ==
    Returned => (rowSuccess <=> Complete(CurrentRow))

\* a complete row with a resolved mandatory field and a mapped optional field
\* that did not resolve
C1_Witness ==
    /\ Returned
    /\ rowSuccess
    /\ \E k \in 1..Len(order) :
          /\ Mandatory(order[k])
          /\ HasMapping(order[k])
          /\ CellValue \in SeqToSet(CurrentRow)
    /\ \E k \in 1..Len(order) :
          /\ ~Mandatory(order[k])
          /\ HasMapping(order[k])
          /\ ~Resolves(order[k], CurrentRow)

\* the raw source cell a resolved field takes its value from
SourceCell(f, dataRow) == dataRow[LeftmostColumn(f)]

ResolvedField(f, dataRow) == LookedUp(f) /\ Resolves(f, dataRow)

(***************************************************************************)
(* C3: the processed row of a complete row has one cell per field of the   *)
(* order; the cell of a resolved field is the raw, untrimmed source cell   *)
(* of the matched column (a whitespace-only cell does not resolve), every  *)
(* other cell is the empty string.                                         *)
(***************************************************************************)
C3_ProcessedCellsRaw ==
    (Returned /\ rowSuccess) =>
        /\ Len(processedRow) = Len(order)
        /\ \A k \in 1..Len(order) :
              processedRow[k] = IF ResolvedField(order[k], CurrentRow)
                                THEN SourceCell(order[k], CurrentRow)
                                ELSE EmptyStr

\* a complete row with a field resolved to a cell with surrounding whitespace
\* and a mapped optional field whose matched cell is whitespace only
C3_Witness ==
    /\ Returned
    /\ rowSuccess
    /\ \E k \in 1..Len(order) :
          /\ ResolvedField(order[k], CurrentRow)
          /\ processedRow[k] = CellValue
          /\ TrimSpace(processedRow[k]) # processedRow[k]
    /\ \E k \in 1..Len(order) :
          /\ HasMapping(order[k])
          /\ MatchingColumns(order[k]) # {}
          /\ LeftmostColumn(order[k]) <= Len(CurrentRow)
          /\ SourceCell(order[k], CurrentRow) = CellBlank
          /\ processedRow[k] = EmptyStr

(***************************************************************************)
(* C4 as claimed: in the missing row of an incomplete row a cell holds     *)
(* "MISSING" exactly when its field is a mandatory field that did not      *)
(* resolve or an optional field with a non-empty mapping that did not      *)
(* resolve; a resolved field's cell holds the raw source value; an         *)
(* optional field with no or an empty mapping holds the empty string.      *)
(***************************************************************************)
C4_MissingExactlyWhenUnresolved ==
    (Returned /\ ~rowSuccess) =>
        /\ Len(missingRow) = Len(order)
        /\ \A k \in 1..Len(order) :
              /\ missingRow[k] = MISSING
                    <=> (LookedUp(order[k]) /\ ~Resolves(order[k], CurrentRow))
              /\ ResolvedField(order[k], CurrentRow)
                    => missingRow[k] = SourceCell(order[k], CurrentRow)
              /\ ~LookedUp(order[k]) => missingRow[k] = EmptyStr

(***************************************************************************)
(* C4 as amended: a cell holds "MISSING" exactly when its field was looked *)
(* up and did not resolve, or resolved to a source cell whose raw text is  *)
(* itself "MISSING"; the other two parts are as claimed.                   *)
(***************************************************************************)
C4_MissingOrSourceSaysMissing ==
    (Returned /\ ~rowSuccess) =>
        /\ Len(missingRow) = Len(order)
        /\ \A k \in 1..Len(order) :
              /\ missingRow[k] = MISSING
                    <=> \/ LookedUp(order[k]) /\ ~Resolves(order[k], CurrentRow)
                        \/ /\ ResolvedField(order[k], CurrentRow)
                           /\ SourceCell(order[k], CurrentRow) = MISSING
              /\ ResolvedField(order[k], CurrentRow)
                    => missingRow[k] = SourceCell(order[k], CurrentRow)
              /\ ~LookedUp(order[k]) => missingRow[k] = EmptyStr

\* an incomplete row: a failed mandatory field and a mapped optional field
\* that did not resolve
C4_Witness ==
    /\ Returned
    /\ ~rowSuccess
    /\ \E k \in 1..Len(order) :
          /\ Mandatory(order[k])
          /\ ~Resolves(order[k], CurrentRow)
          /\ missingRow[k] = MISSING
    /\ \E k \in 1..Len(order) :
          /\ ~Mandatory(order[k])
          /\ HasMapping(order[k])
          /\ ~Resolves(order[k], CurrentRow)
          /\ missingRow[k] = MISSING

(***************************************************************************)
(* C6: a mapped column name matches a source header exactly when the two   *)
(* are equal after trimming surrounding whitespace and lower-casing both;  *)
(* "Account Number", "ACCOUNT NUMBER" and " account number " match each    *)
(* other and "AccountNumber" matches none of them.                         *)
(***************************************************************************)
C6_Spellings == <<MapAccountNumber, HdrUpper, HdrPadded>>

\* the three spellings as headers and as mapped columns, and "AccountNumber"
C6_Examples ==
    \A a, b \in 1..Len(C6_Spellings) :
        /\ normalizeHeaders(C6_Spellings)[a] = normalizeColumn(C6_Spellings[b])
        /\ normalizeHeaders(<<HdrNoSpace>>)[1] # normalizeColumn(C6_Spellings[b])
        /\ normalizeHeaders(C6_Spellings)[a] # normalizeColumn(HdrNoSpace)

C6_MatchIffEqualNormalised ==
    /\ \A k \in 1..Len(order) : \A j \in 1..Len(normalizedHeaders) :
          (normalizedHeaders[j] = normalizeColumn(MappedTo(order[k])))
              <=> (Normalised(rows[1][j]) = Normalised(MappedTo(order[k])))
    /\ C6_Examples

\* a field resolved through a header spelt differently from its mapping,
\* next to a header that differs from the mapping by the inner space only
C6_Witness ==
    /\ Returned
    /\ \E k \in 1..Len(order) : \E j1, j2 \in 1..Len(rows[1]) :
          /\ MappedTo(order[k]) = MapAccountNumber
          /\ rows[1][j1] \in {HdrUpper, HdrPadded}
          /\ rows[1][j2] = HdrNoSpace
          /\ normalizedHeaders[j1] = normalizeColumn(MappedTo(order[k]))
          /\ normalizedHeaders[j2] # normalizeColumn(MappedTo(order[k]))
          /\ j1 <= Len(CurrentRow)
          /\ processedRow[k] = CurrentRow[j1]
          /\ processedRow[k] # EmptyStr

(***************************************************************************)
(* C7: when several headers normalise to the string a field is mapped to,  *)
(* the field takes its value from the leftmost of them; if that column's   *)
(* cell is blank or beyond the row the field is unresolved, even when a    *)
(* later duplicate column holds a value.                                   *)
(***************************************************************************)
C7_LeftmostDuplicate ==
    Returned =>
        \A k \in 1..Len(order) :
            (LookedUp(order[k]) /\ Cardinality(MatchingColumns(order[k])) >= 2) =>
                LET left == LeftmostColumn(order[k])
                IN  IF left <= Len(CurrentRow) /\ ~Blank(CurrentRow[left])
                    THEN /\ processedRow[k] = CurrentRow[left]
                         /\ missingRow[k] = CurrentRow[left]
                    ELSE /\ processedRow[k] = EmptyStr
                         /\ missingRow[k] = MISSING
                         /\ Mandatory(order[k]) =>
                               /\ ~rowSuccess
                               /\ order[k] \in SeqToSet(rowMissingFields)

\* two spellings of the mapped header, the left cell blank, the right a value
C7_Witness ==
    /\ Returned
    /\ \E k \in 1..Len(order) : \E j1, j2 \in MatchingColumns(order[k]) :
          /\ LookedUp(order[k])
          /\ j1 < j2
          /\ rows[1][j1] # rows[1][j2]
          /\ j2 <= Len(CurrentRow)
          /\ Blank(CurrentRow[j1])
          /\ ~Blank(CurrentRow[j2])
          /\ missingRow[k] = MISSING

(***************************************************************************)
(* What the specification says of a table, stated apart from processFile   *)
(***************************************************************************)
\* the rows are being classified, or have been
Classifying == pc \in {"loop", "save"} \/ (pc = "done" /\ summary # EmptyStr)

\* every data row has been classified
Classified == pc = "save" \/ (pc = "done" /\ summary # EmptyStr)

\* the data rows classified so far, by their index in the table (header 0)
DoneRows == {r \in 1..(Len(rows) - 1) : r < i}

\* what processRow reports of the data row at index r
Reported(r) == processRow(rows[r + 1], normalizedHeaders, fieldMappings, order, fieldConfig)

ProcessedSheet == outputFile.ProcessedData
MissingSheet == outputFile.MissingData

\* the rows of a sheet below its header row
DataRowsOf(sheet) == (DOMAIN sheet) \ {1}

\* the indices 1..n, in increasing order, that satisfy Keep
Kept(n, Keep(_)) == SelectSeq([k \in 1..n |-> k], Keep)

(***************************************************************************)
(* C2: every data row is placed in exactly one of ProcessedData and        *)
(* MissingData: in ProcessedData if processRow reports it complete,        *)
(* otherwise in MissingData; none is in both or in neither.                *)
(***************************************************************************)
C2_EachRowInExactlyOneSheet ==
    Classifying =>
        \A report \in {[r \in DoneRows |-> Reported(r)]} :
            /\ Cardinality(DataRowsOf(ProcessedSheet))
                  + Cardinality(DataRowsOf(MissingSheet)) = Cardinality(DoneRows)
            /\ Cardinality(DataRowsOf(ProcessedSheet))
                  = Cardinality({r \in DoneRows : report[r].isSuccess})
            /\ \A r \in DoneRows :
                  IF report[r].isSuccess
                  THEN \E n \in DataRowsOf(ProcessedSheet) :
                          ProcessedSheet[n] = report[r].processedRow
                  ELSE \E n \in DataRowsOf(MissingSheet) :
                          MissingSheet[n] = report[r].missingRow

\* a finished table with one row in each sheet
C2_Witness ==
    /\ Classified
    /\ Cardinality(DoneRows) = 2
    /\ Cardinality(DataRowsOf(ProcessedSheet)) = 1
    /\ Cardinality(DataRowsOf(MissingSheet)) = 1

(***************************************************************************)
(* C5: for every data row at table index r that fails a mandatory field    *)
(* the summary has exactly one line "Row <r+1>: Missing mandatory fields - *)
(* <names>", the names being the failed mandatory fields in field order    *)
(* joined by ", "; the first data row is row 2, the lines are in input row *)
(* order, and a complete row has no line.                                  *)
(***************************************************************************)
C5_FailedNames(dataRow) ==
    SelectSeq(order, LAMBDA f : Mandatory(f) /\ ~Resolves(f, dataRow))

\* the line of the data row at table index r whose failed fields are names
C5_Line(r, names) ==
    <<"R","o","w"," ">> \o Itoa(r + 1)
    \o <<":"," ","M","i","s","s","i","n","g"," ","m","a","n","d","a","t","o","r","y"," ",
         "f","i","e","l","d","s"," ","-"," ">>
    \o Join(names, <<",", " ">>) \o <<"\n">>

\* a complete row has no line
C5_LineIfAny(r, names) == IF names # <<>> THEN C5_Line(r, names) ELSE <<>>

\* the lines of the rows 1..n that fail a mandatory field, in row order
RECURSIVE C5_Lines(_)
C5_Lines(n) ==
    IF n = 0 THEN <<>>
    ELSE C5_Lines(n - 1) \o C5_LineIfAny(n, C5_FailedNames(rows[n + 1]))

C5_SummaryLines ==
    Classified =>
        LET lines == C5_Lines(Len(rows) - 1)
            from == Len(SummaryTitle)
        IN  /\ SubSeq(summary, 1, from) = SummaryTitle
            /\ SubSeq(summary, from + 1, from + Len(lines)) = lines
            /\ SubSeq(summary, from + Len(lines) + 1,
                      from + Len(lines) + Len(SummaryTotal)) = SummaryTotal

\* a complete first row and a second row failing both mandatory fields
C5_Witness ==
    /\ Classified
    /\ Len(rows) = 3
    /\ Complete(rows[2])
    /\ Len(C5_FailedNames(rows[3])) = 2
    /\ SubSeq(summary, Len(SummaryTitle) + 1, Len(SummaryTitle) + 5)
          = <<"R","o","w"," ","3">>

(***************************************************************************)
(* C8: for a table of at least one row (a header alone included)           *)
(* processing is not an error and the summary reports Total Rows Processed *)
(* = rows - 1, Successful Rows = rows written to ProcessedData, Rows with  *)
(* Missing Data = rows written to MissingData, the two adding up to the    *)
(* total.                                                                  *)
(***************************************************************************)
C8_CountsTail(total, nProcessed, nMissing) ==
    SummaryTotal \o Itoa(total) \o <<"\n">>
    \o SummarySuccessful \o Itoa(nProcessed) \o <<"\n">>
    \o SummaryMissing \o Itoa(nMissing) \o <<"\n">>

C8_SummaryCounts ==
    (pc = "done" /\ Len(rows) >= 1) =>
        LET nProcessed == Cardinality(DataRowsOf(ProcessedSheet))
            nMissing == Cardinality(DataRowsOf(MissingSheet))
        IN  /\ result[1] = summary
            /\ SubSeq(summary, 1, Len(SummaryTitle)) = SummaryTitle
            /\ HasSuffix(summary, C8_CountsTail(Len(rows) - 1, nProcessed, nMissing))
            /\ nProcessed + nMissing = Len(rows) - 1

\* a finished table with a successful row and a row with missing data
C8_Witness ==
    /\ pc = "done"
    /\ Len(rows) = 3
    /\ successfulRows = 1
    /\ missingCount = 1
    /\ result[1] = summary

(***************************************************************************)
(* C9: each sheet lists its rows in input row order, in consecutive rows   *)
(* from row 2 on, with no gap and no row overwritten.                      *)
(***************************************************************************)
C9_SheetsInInputOrder ==
    Classifying =>
        \A report \in {[r \in DoneRows |-> Reported(r)]} :
        \A complete \in {Kept(Cardinality(DoneRows), LAMBDA r : report[r].isSuccess)} :
        \A incomplete \in {Kept(Cardinality(DoneRows), LAMBDA r : ~report[r].isSuccess)} :
            /\ DOMAIN ProcessedSheet = 1..(Len(complete) + 1)
            /\ DOMAIN MissingSheet = 1..(Len(incomplete) + 1)
            /\ \A k \in 1..Len(complete) :
                  ProcessedSheet[k + 1] = report[complete[k]].processedRow
            /\ \A k \in 1..Len(incomplete) :
                  MissingSheet[k + 1] = report[incomplete[k]].missingRow

\* two different rows in MissingData
C9_Witness ==
    /\ Classified
    /\ DOMAIN MissingSheet = 1..3
    /\ MissingSheet[2] # MissingSheet[3]
    /\ MissingSheet[2] = Reported(1).missingRow

(***************************************************************************)
(* C10: a data row with fewer cells than the header row is never a hard    *)
(* error, for CSV as for spreadsheet input: reading and processing         *)
(* succeed.                                                                *)
(***************************************************************************)
C10_HasShortRow ==
    \E r \in 2..Len(file.records) : Len(file.records[r]) < Len(file.records[1])

C10_ShortRowsNeverAnError ==
    (pc = "done" /\ file.ok /\ C10_HasShortRow) =>
        /\ result[1] = summary
        /\ SubSeq(result[1], 1, Len(ErrorOpeningFile)) # ErrorOpeningFile
        /\ Len(rows) = Len(file.records)

(***************************************************************************)
(* What the specification says of the artifacts, stated apart from the     *)
(* renderers                                                               *)
(***************************************************************************)
\* processFile has returned after rendering succeeded
Rendered == pc = "done" /\ summary # EmptyStr /\ result[2] # EmptyStr

\* the rows of a sheet from its header row down, as the workbook holds them
SheetRows(sheet) == [n \in 1..Cardinality(DOMAIN sheet) |-> sheet[n]]

\* a table as pipe-delimited text, one record per row
C11_Delimited(table) == ConcatAll([n \in 1..Len(table) |-> csvWrite(table[n])])

\* a table as a Markdown table: the first row is the header
C11_Markdown(table) == generateMarkdownTable(table[1], Tail(table))

(***************************************************************************)
(* C11: for the same field order, processed rows and missing rows the      *)
(* pipe-delimited artifacts and the Markdown tables hold the header and    *)
(* the data rows of the ProcessedData and MissingData sheets, cell for     *)
(* cell and in the same order, for any number of canonical fields.         *)
(***************************************************************************)
C11_ArtifactsHoldTheSheets ==
    Rendered =>
        /\ outputFormat = "csv" =>
              /\ uploads[ProcessedCSVPath(uniqueID)] = C11_Delimited(SheetRows(ProcessedSheet))
              /\ uploads[MissingCSVPath(uniqueID)] = C11_Delimited(SheetRows(MissingSheet))
        /\ outputFormat = "markdown" =>
              /\ uploads[ProcessedMDPath(uniqueID)]
                    = MDReportHead \o summary \o MDReportMid
                      \o C11_Markdown(SheetRows(ProcessedSheet))
              /\ uploads[MissingMDPath(uniqueID)]
                    = MDMissingHead \o C11_Markdown(SheetRows(MissingSheet))

(***************************************************************************)
(* C12: generateMarkdownTable(headers, rows) is the line "| h1 | h2 | ...  *)
(* | " (a space before the newline), the line "| --- | --- | ... |" with   *)
(* one "---" per header, then one line per row in input order; a cell is   *)
(* the input cell with every "|" replaced by "\|" and no other character   *)
(* altered.                                                                *)
(***************************************************************************)
\* the cell with a backslash put before every pipe character
C12_Cell(cell) ==
    ConcatAll([k \in 1..Len(cell) |->
                  IF cell[k] = "|" THEN <<"\\", "|">> ELSE <<cell[k]>>])

C12_HeaderLine(headers) ==
    <<"|">> \o ConcatAll([k \in 1..Len(headers) |-> <<" ">> \o headers[k] \o <<" ", "|">>])
    \o <<" ", "\n">>

C12_SeparatorLine(headers) ==
    <<"|">> \o ConcatAll([k \in 1..Len(headers) |-> <<" ", "-", "-", "-", " ", "|">>])
    \o <<"\n">>

C12_RowLine(row) ==
    <<"|">> \o ConcatAll([k \in 1..Len(row) |-> <<" ">> \o C12_Cell(row[k]) \o <<" ", "|">>])
    \o <<" ", "\n">>

RECURSIVE C12_RowLines(_)
C12_RowLines(tableRows) ==
    IF tableRows = <<>> THEN <<>>
    ELSE C12_RowLine(Head(tableRows)) \o C12_RowLines(Tail(tableRows))

C12_Table(headers, tableRows) ==
    C12_HeaderLine(headers) \o C12_SeparatorLine(headers) \o C12_RowLines(tableRows)

\* the rows saveAsMarkdown reads from a sheet and passes to generateMarkdownTable
C12_RowsPassed(sheet, rowCount) == ReadSheetRows(outputFile, sheet, order, rowCount)

C12_MarkdownTableLines ==
    (Rendered /\ outputFormat = "markdown") =>
        /\ uploads[ProcessedMDPath(uniqueID)]
              = MDReportHead \o summary \o MDReportMid
                \o C12_Table(order, C12_RowsPassed("ProcessedData", outputRowIndex))
        /\ uploads[MissingMDPath(uniqueID)]
              = MDMissingHead
                \o C12_Table(order, C12_RowsPassed("MissingData", missingRowIndex))

\* a Markdown table of two rows with a cell that holds a pipe character
C12_Witness ==
    /\ Rendered
    /\ outputFormat = "markdown"
    /\ Len(C12_RowsPassed("MissingData", missingRowIndex)) = 2
    /\ \E r \in 1..2 : \E c \in 1..Len(order) :
          /\ C12_RowsPassed("MissingData", missingRowIndex)[r][c] = CellPipe
          /\ C12_Cell(CellPipe) = <<"a", "\\", "|", "b">>
    /\ Len(C12_RowsPassed("ProcessedData", outputRowIndex)) = 0

(***************************************************************************)
(* C13: processFile renders the pipe-delimited pair iff outputFormat is    *)
(* "csv", the Markdown pair iff it is "markdown" and the workbook for      *)
(* every other value ("xlsx", "excel", the empty string, an unrecognised   *)
(* string); on success the returned path ends in .csv, .md or .xlsx        *)
(* respectively and carries the request's unique ID.                       *)
(***************************************************************************)
C13_CSVPair == {ProcessedCSVPath(uniqueID), MissingCSVPath(uniqueID)}
C13_MDPair == {ProcessedMDPath(uniqueID), MissingMDPath(uniqueID)}
C13_Workbook == {ProcessedXLSXPath(uniqueID)}

\* the path is under ./uploads, starts with the unique ID and ends in ext
C13_PathOf(path, ext) ==
    /\ SubSeq(path, 1, Len(UploadsDir) + Len(uniqueID)) = UploadsDir \o uniqueID
    /\ HasSuffix(path, ext)

C13_Rendering ==
    IF outputFormat = "csv" THEN [files |-> C13_CSVPair, ext |-> ExtCSV]
    ELSE IF outputFormat = "markdown" THEN [files |-> C13_MDPair, ext |-> <<".", "m", "d">>]
    ELSE [files |-> C13_Workbook, ext |-> ExtXLSX]

C13_FormatSelectsRenderer ==
    (pc = "done" /\ summary # EmptyStr) =>
        /\ DOMAIN uploads \subseteq C13_Rendering.files
        /\ result[2] # EmptyStr =>
              /\ DOMAIN uploads = C13_Rendering.files
              /\ (DOMAIN uploads = C13_CSVPair) <=> (outputFormat = "csv")
              /\ (DOMAIN uploads = C13_MDPair) <=> (outputFormat = "markdown")
              /\ (DOMAIN uploads = C13_Workbook) <=> (outputFormat \notin {"csv", "markdown"})
              /\ C13_PathOf(result[2], C13_Rendering.ext)

\* a workbook rendered for an unrecognised outputFormat
C13_Witness ==
    /\ Rendered
    /\ outputFormat = "pdf"
    /\ DOMAIN uploads = C13_Workbook
    /\ HasSuffix(result[2], ExtXLSX)

(***************************************************************************)
(* What the specification says of a failed run, stated apart from          *)
(* processFile                                                             *)
(***************************************************************************)
\* the path has one of the two recognised extensions
Recognised == HasSuffix(file.path, ExtXLSX) \/ HasSuffix(file.path, ExtCSV)

\* nothing was normalised, classified, summarised or written
NothingDone ==
    /\ normalizedHeaders = <<>>
    /\ outputFile = NoSheets
    /\ i = 0
    /\ successfulRows = 0
    /\ missingCount = 0
    /\ missingDetails = EmptyStr
    /\ processedRow = <<>>
    /\ missingRow = <<>>
    /\ summary = EmptyStr
    /\ uploads = <<>>

\* the text occurs in the string
Contains(str, text) ==
    \E k \in 0..(Len(str) - Len(text)) : SubSeq(str, k + 1, k + Len(text)) = text

(***************************************************************************)
(* C14: if the parsed table has zero rows processFile fails fast with the  *)
(* no-data message: it returns before normalising headers, classifying a   *)
(* row, computing a summary or creating an output artifact.                *)
(***************************************************************************)
C14_NoDataFailsFast ==
    (Recognised /\ file.ok /\ file.records = <<>>) =>
        /\ NothingDone
        /\ pc \in {"start", "loaded", "done"}
        /\ pc = "done" =>
              /\ result[1] = NoDataFound \o <<".">>
              /\ result[2] = NoDataFound

\* a readable spreadsheet without a row, and processFile has returned
C14_Witness ==
    /\ pc = "done"
    /\ file.ok
    /\ file.path = PathXLSX
    /\ file.records = <<>>
    /\ rows = <<>>
    /\ result[1] = NoDataFound \o <<".">>

(***************************************************************************)
(* C15: if the input path ends in neither .xlsx nor .csv, or the file      *)
(* cannot be opened or parsed, processFile returns a first slot beginning  *)
(* with "Error opening file" and a second slot containing "Error opening   *)
(* file", classifies no row and creates no output artifact.                *)
(***************************************************************************)
\* a CSV file whose records do not all have the first record's length
C15_Malformed ==
    /\ HasSuffix(file.path, ExtCSV)
    /\ \E r \in 1..Len(file.records) : Len(file.records[r]) # Len(file.records[1])

C15_Unreadable == ~Recognised \/ ~file.ok \/ C15_Malformed

C15_UnreadableInputIsAnError ==
    C15_Unreadable =>
        /\ NothingDone
        /\ rows = <<>>
        /\ pc \in {"start", "done"}
        /\ pc = "done" =>
              /\ SubSeq(result[1], 1, Len(ErrorOpeningFile)) = ErrorOpeningFile
              /\ Contains(result[2], ErrorOpeningFile)

\* a path with another extension, and processFile has returned the error
C15_Witness ==
    /\ pc = "done"
    /\ ~Recognised
    /\ result[1] = ErrorOpeningFile \o <<":", " ">> \o ErrUnsupported
    /\ result[2] = ErrorOpeningFile

(***************************************************************************)
(* C16: if creating or writing an output artifact fails, for any of the    *)
(* three formats, processFile still returns exactly the summary text of a  *)
(* successful render of the same input, with an empty second slot; the     *)
(* summary is computed before rendering and does not depend on the output  *)
(* format.                                                                 *)
(***************************************************************************)
\* the summary of the table and the request, whatever the format
C16_SummaryOfInput ==
    LET n == Len(rows) - 1
        complete == Cardinality({r \in 1..n : Complete(rows[r + 1])})
    IN  SummaryTitle \o C5_Lines(n) \o C8_CountsTail(n, complete, n - complete)

\* the artifacts of the format that a successful render leaves
C16_Artifacts ==
    IF outputFormat = "csv"
    THEN {ProcessedCSVPath(uniqueID), MissingCSVPath(uniqueID)}
    ELSE IF outputFormat = "markdown"
    THEN {ProcessedMDPath(uniqueID), MissingMDPath(uniqueID)}
    ELSE {ProcessedXLSXPath(uniqueID)}

\* rendering was attempted and an artifact could not be created
C16_RenderFailed == pc = "done" /\ Len(rows) >= 1 /\ DOMAIN uploads # C16_Artifacts

C20_IsPiece(a, b) ==
    /\ a = 1 \/ apiKeysEnv[a - 1] = ","
    /\ b = Len(apiKeysEnv) \/ apiKeysEnv[b + 1] = ","
    /\ \A k \in a..b : apiKeysEnv[k] # ","

\* the key is one of the comma-separated pieces of API_KEYS, trimmed
C20_Configured(key) ==
    \E a \in 1..(Len(apiKeysEnv) + 1) : \E b \in (a - 1)..Len(apiKeysEnv) :
        C20_IsPiece(a, b) /\ TrimSpace(SubSeq(apiKeysEnv, a, b)) = key

(***************************************************************************)
(* C20: RequireAPIKey calls the wrapped handler iff the X-API-Key header   *)
(* is non-empty and equals one of the keys configured through API_KEYS     *)
(* (comma-separated, each trimmed); otherwise it responds 401, with "API   *)
(* key is missing" for an absent or empty header and "Invalid API key" for *)
(* an unknown key, and never calls the wrapped handler, whatever API_KEYS  *)
(* contains.                                                               *)
(***************************************************************************)
C20_HandlerCalledIffKeyConfigured ==
    /\ authPc # "served" => ~nextCalled
    /\ authPc = "served" =>
          /\ nextCalled <=> (xAPIKey # EmptyStr /\ C20_Configured(xAPIKey))
          /\ nextCalled => authResponse.status = 0
          /\ ~nextCalled =>
                /\ authResponse.status = 401
                /\ authResponse.body =
                      (IF xAPIKey = EmptyStr THEN MsgKeyMissing ELSE MsgKeyInvalid)
                      \o <<"\n">>

\* a key configured with surrounding whitespace is accepted, next to an
\* empty piece of API_KEYS
C20_Witness ==
    /\ authPc = "served"
    /\ nextCalled
    /\ xAPIKey = KeyOne
    /\ KeyOne \notin {Split(apiKeysEnv, ",")[k] : k \in 1..Len(Split(apiKeysEnv, ","))}
    /\ EmptyStr \in apiKeys

(***************************************************************************)
(* What the specification says of the requests, stated apart from the      *)
(* handlers                                                                *)
(***************************************************************************)
\* the handler has passed the file type check and built mappings and order
Accepted(p) == handlers[p].pc \notin {"received"} /\ handlers[p].uniqueID # EmptyStr

Finished(p) == handlers[p].pc = "done" /\ handlers[p].uniqueID # EmptyStr

\* the keys of the request's mapping that are not configured fields
UnknownKeys(p) ==
    (DOMAIN requests[p].mappings) \ {fieldConfig.Fields[k].Name : k \in 1..Len(fieldConfig.Fields)}

(***************************************************************************)
(* C17: running the pipeline twice on identical input, mapping and output  *)
(* format produces identical field order, identical ProcessedData and      *)
(* MissingData rows and an identical summary (only the unique identifier   *)
(* in artifact names may differ), also when the request enters through     *)
(* handleUpload with mapping keys that are not configured fields.          *)
(***************************************************************************)
C17_SameInputSameOutput ==
    \A p, q \in DOMAIN handlers :
        (requests[p] = requests[q] /\ Finished(p) /\ Finished(q)) =>
            /\ handlers[p].order = handlers[q].order
            /\ handlers[p].outputFile = handlers[q].outputFile
            /\ handlers[p].summary = handlers[q].summary

(***************************************************************************)
(* C18: a mapping entry whose key is not a configured field is tolerated   *)
(* at every request entry point (handleUpload and handleAPIProcess): the   *)
(* key is appended once to the field order after the configured fields,    *)
(* appears as an output column, and is treated as an optional field.       *)
(***************************************************************************)
C18_UnknownKeysAppended ==
    \A p \in DOMAIN handlers :
        Accepted(p) =>
            \A key \in UnknownKeys(p) :
                /\ Cardinality({k \in 1..Len(handlers[p].order) :
                                   handlers[p].order[k] = key}) = 1
                /\ \A k \in 1..Len(fieldConfig.Fields) : handlers[p].order[k] # key
                /\ ~Mandatory(key)
                /\ handlers[p].outputFile # NoSheets =>
                      /\ key \in SeqToSet(handlers[p].outputFile.ProcessedData[1])
                      /\ key \in SeqToSet(handlers[p].outputFile.MissingData[1])

(***************************************************************************)
(* C19: two requests processed concurrently with distinct unique IDs never *)
(* create, overwrite or read each other's saved input file or output       *)
(* artifacts: every path a request writes is prefixed by its own unique    *)
(* ID, and under every interleaving each request's summary and artifacts   *)
(* equal those it produces when run alone.                                 *)
(***************************************************************************)
\* every request has its unique ID and no two have the same
C19_DistinctIDs ==
    /\ \A p \in DOMAIN handlers : handlers[p].uniqueID # EmptyStr
    /\ \A p, q \in DOMAIN handlers :
          p # q => handlers[p].uniqueID # handlers[q].uniqueID

\* the path is in ./uploads and its name begins with the request's unique ID
C19_Own(p, path) ==
    LET prefix == UploadsDir \o handlers[p].uniqueID \o <<"_">>
    IN  /\ handlers[p].uniqueID # EmptyStr
        /\ Len(path) > Len(prefix)
        /\ SubSeq(path, 1, Len(prefix)) = prefix

\* the request served alone, with the unique ID and the field order its
\* handler has: the summary, the returned path and the files in ./uploads
C19_Alone(p) ==
    LET h == handlers[p]
        saved == [ok |-> requests[p].file.ok, records |-> requests[p].file.records]
        r == processFileToSummary([path |-> h.tempFilePath, ok |-> saved.ok,
                                   records |-> saved.records],
                                  h.fieldMappings, h.order, fieldConfig)
        s == IF ~r.ok THEN [fs |-> <<>>, path |-> r.outputPath]
             ELSE IF h.outputFormat = "csv"
             THEN saveAsCSV(<<>>, r.outputFile, h.order, r.outputRowIndex,
                            r.missingRowIndex, h.uniqueID, 0)
             ELSE IF h.outputFormat = "markdown"
             THEN saveAsMarkdown(<<>>, r.outputFile, h.order, r.outputRowIndex,
                                 r.missingRowIndex, r.summary, h.uniqueID, 0)
             ELSE saveAsXLSX(<<>>, r.outputFile, ProcessedXLSXPath(h.uniqueID), 0)
    IN  [summary |-> r.summary, outputPath |-> s.path, artifacts |-> s.fs,
         input |-> saved]

C19_RequestsIsolated ==
    C19_DistinctIDs =>
        /\ \A path \in DOMAIN uploads :
              Cardinality({p \in DOMAIN handlers : C19_Own(p, path)}) = 1
        /\ \A p \in DOMAIN handlers : \A alone \in {C19_Alone(p)} :
              /\ \A path \in {f \in DOMAIN uploads : C19_Own(p, f)} :
                    IF path = handlers[p].tempFilePath
                    THEN uploads[path] = alone.input
                    ELSE /\ path \in DOMAIN alone.artifacts
                         /\ uploads[path] = alone.artifacts[path]
              /\ handlers[p].pc \in {"processed", "done"} =>
                    /\ handlers[p].summary = alone.summary
                    /\ handlers[p].outputPath = alone.outputPath
                    /\ \A path \in DOMAIN alone.artifacts : path \in DOMAIN uploads
              /\ (Finished(p) /\ handlers[p].response.status = 200) =>
                    /\ handlers[p].response.body.summary = alone.summary
                    /\ requests[p].handler = "api" =>
                          handlers[p].response.body.content
                              = alone.artifacts[alone.outputPath]

\* two uploads of the same name and format but different rows, served with
\* different unique IDs: three files each
C19_Witness ==
    /\ C19_DistinctIDs
    /\ \A p \in DOMAIN handlers : Finished(p) /\ handlers[p].outputFormat = "csv"
    /\ requests[1].file.filename = requests[2].file.filename
    /\ requests[1].file.records # requests[2].file.records
    /\ handlers[1].summary # handlers[2].summary
    /\ Cardinality(DOMAIN uploads) = 6
    /\ uploads[ProcessedCSVPath(handlers[1].uniqueID)]
          # uploads[ProcessedCSVPath(handlers[2].uniqueID)]

(***************************************************************************)
(* C24: if a mandatory field has no mapping entry (or an empty one), the   *)
(* field is unresolved for every data row whatever the file's headers and  *)
(* cells are: the row is incomplete, its missing row has "MISSING" in the  *)
(* field's cell, the field is named among the row's missing fields and     *)
(* its processed cell is empty.                                            *)
(***************************************************************************)
C24_UnmappedMandatoryNeverResolves ==
    Returned =>
        \A k \in 1..Len(order) :
            (Mandatory(order[k]) /\ ~HasMapping(order[k])) =>
                /\ ~rowSuccess
                /\ missingRow[k] = MISSING
                /\ processedRow[k] = EmptyStr
                /\ order[k] \in SeqToSet(rowMissingFields)

(***************************************************************************)
(* C28: the mapper never writes the sentinel "MISSING" into a processed    *)
(* row: every cell of the processed row is either the empty string or the  *)
(* raw value of a source cell of that row, the cell of a field that did    *)
(* not resolve is empty, and for each field that resolved the processed    *)
(* cell and the missing cell are equal (both the raw source cell).         *)
(***************************************************************************)
C28_NoSentinelInProcessedRow ==
    Returned =>
        \A k \in 1..Len(order) :
            /\ \/ processedRow[k] = EmptyStr
               \/ processedRow[k] \in SeqToSet(CurrentRow)
            /\ IF ResolvedField(order[k], CurrentRow)
               THEN /\ processedRow[k] = SourceCell(order[k], CurrentRow)
                    /\ processedRow[k] = missingRow[k]
               ELSE processedRow[k] = EmptyStr

\* a complete row with a resolved field and a mapped optional field that did
\* not resolve: "MISSING" in the missing row, nothing in the processed row,
\* and no source cell reads "MISSING"
C28_Witness ==
    /\ Returned
    /\ rowSuccess
    /\ MISSING \notin SeqToSet(CurrentRow)
    /\ \E k \in 1..Len(order) :
          /\ ~ResolvedField(order[k], CurrentRow)
          /\ missingRow[k] = MISSING
          /\ processedRow[k] = EmptyStr
    /\ \E k \in 1..Len(order) :
          /\ ResolvedField(order[k], CurrentRow)
          /\ processedRow[k] = CellValue

(***************************************************************************)
(* C27: every line of the table returned by generateMarkdownTable (header  *)
(* line, separator line and each data row with as many cells as there are  *)
(* headers) contains exactly len(headers)+1 pipe characters that are not   *)
(* immediately preceded by a backslash, whatever characters the header     *)
(* names and the cells contain.                                            *)
(***************************************************************************)
\* the pipe characters of the line that no backslash stands before
C27_BarePipes(line) ==
    Cardinality({k \in 1..Len(line) :
                    line[k] = "|" /\ (k = 1 \/ line[k - 1] # "\\")})

\* the lines of a text that ends with a newline
C27_Lines(text) ==
    LET pieces == Split(text, "\n")
    IN  SubSeq(pieces, 1, Len(pieces) - 1)

\* the table of the missing-data report: what follows the report's heading
C27_MissingTable ==
    SubSeq(uploads[MissingMDPath(uniqueID)], Len(MDMissingHead) + 1,
           Len(uploads[MissingMDPath(uniqueID)]))

C27_EveryLineHasOnePipePerColumn ==
    (Rendered /\ outputFormat = "markdown") =>
        \A lines \in {C27_Lines(C27_MissingTable)} :
            /\ Len(lines) = missingRowIndex
            /\ \A n \in 1..Len(lines) : C27_BarePipes(lines[n]) = Len(order) + 1

(***************************************************************************)
(* C23: the pipeline runs its stages in the fixed order read, normalize,   *)
(* classify rows, summarize, render, each stage at most once and with no   *)
(* retry; a failure in the read or render stage ends the pipeline at that  *)
(* stage with no later stage executed, and every request on a finite table *)
(* eventually ends in exactly one of success or failure.                   *)
(***************************************************************************)
\* how far the pipeline is: before the read, read, normalized and
\* classifying, summarized, returned
C23_Stage(at) ==
    CASE at = "start" -> 0
      [] at = "loaded" -> 1
      [] at = "loop" -> 2
      [] at = "save" -> 3
      [] at = "done" -> 4

\* one step of the pipeline: the next stage, the next row of the
\* classification, or the return; no step is taken after the return, and a
\* return from the read or the render stage has run nothing after it
C23_Step ==
    /\ pc # "done"
    /\ \/ C23_Stage(pc') = C23_Stage(pc) + 1
       \/ pc = "loop" /\ pc' = "loop" /\ i' = i + 1
       \/ pc' = "done"
    /\ (pc = "start" /\ pc' = "done") =>
          /\ outputFile' = NoSheets /\ summary' = EmptyStr /\ uploads' = <<>>
          /\ result'[1] # EmptyStr
    /\ (pc = "save" /\ pc' = "done") => (summary' = summary /\ outputFile' = outputFile)
    /\ pc' = "done" => pc \in {"start", "loaded", "save"}

\* processFile returned the summary and the path of an artifact it wrote
C23_Success ==
    /\ summary # EmptyStr
    /\ result = <<summary, result[2]>>
    /\ result[2] \in DOMAIN uploads

\* processFile returned an error text, or the summary with no path
C23_Failure ==
    \/ summary = EmptyStr /\ result[1] # EmptyStr /\ uploads = <<>>
    \/ summary # EmptyStr /\ result[2] = EmptyStr

C23_StagesInOrderAndTermination ==
    /\ [][C23_Step]_vars
    /\ [](pc = "done" => (C23_Success /\ ~C23_Failure) \/ (C23_Failure /\ ~C23_Success))
    /\ <>[](pc = "done")

\* the render stage failed on its second file: the first is written, the
\* pipeline has returned the summary with no path
C23_Witness ==
    /\ pc = "done"
    /\ C23_Failure
    /\ summary # EmptyStr
    /\ DOMAIN uploads = {ProcessedCSVPath(uniqueID)}

(***************************************************************************)
(* C26: processing any sequence of requests leaves the shared field        *)
(* configuration unchanged: GetOrderedFields returns a fresh list of the   *)
(* field names in declaration order on each call, so appending unknown     *)
(* mapping keys to one request's field order never changes the             *)
(* configuration or the field order seen by any other request.             *)
(***************************************************************************)
\* the names of the configured fields, in the order of their declaration
C26_Declared == [k \in 1..Len(ServerConfig.Fields) |-> ServerConfig.Fields[k].Name]

C26_ConfigurationNeverChanges ==
    /\ fieldConfig = ServerConfig
    /\ GetOrderedFields(fieldConfig) = C26_Declared
    /\ \A p \in DOMAIN handlers :
          Accepted(p) =>
              /\ Len(handlers[p].order) >= Len(C26_Declared)
              /\ SubSeq(handlers[p].order, 1, Len(C26_Declared)) = C26_Declared
              /\ \A k \in (Len(C26_Declared) + 1)..Len(handlers[p].order) :
                    /\ requests[p].handler = "upload"
                    /\ handlers[p].order[k] \in UnknownKeys(p)
              /\ isMandatoryOf(ClientCode, fieldConfig)
              /\ \A key \in UnknownKeys(p) : ~isMandatoryOf(key, fieldConfig)

\* an upload whose order has two appended keys, and an API request served
\* after it with the configured order
C26_Witness ==
    /\ requests[1].handler = "upload"
    /\ requests[2].handler = "api"
    /\ Finished(1)
    /\ Finished(2)
    /\ Len(handlers[1].order) = Len(C26_Declared) + 2
    /\ handlers[2].order = C26_Declared
    /\ handlers[2].outputFile # NoSheets

(***************************************************************************)
(* C21: handleDownload answers 400 when the file parameter is empty or     *)
(* holds "..", "/" or "\", 404 when nothing of that name exists in         *)
(* ./uploads, and sends content only when the parameter names an existing  *)
(* direct child of ./uploads; no file outside ./uploads is ever served.    *)
(***************************************************************************)
C21_Refused(f) ==
    \/ f = EmptyStr
    \/ Contains(f, <<".", ".">>)
    \/ \E k \in 1..Len(f) : f[k] \in {"/", "\\"}

\* the path names a direct child of ./uploads
C21_DirectChild(path) ==
    /\ Len(path) > Len(UploadsDir)
    /\ SubSeq(path, 1, Len(UploadsDir)) = UploadsDir
    /\ \A k \in (Len(UploadsDir) + 1)..Len(path) : path[k] # "/"

C21_DownloadOnlyFromUploads ==
    download.pc = "done" =>
        /\ C21_Refused(download.file) => download.response.status = 400
        /\ (/\ ~C21_Refused(download.file)
            /\ download.file # <<".">>
            /\ (UploadsDir \o download.file) \notin DOMAIN uploads)
           => download.response.status = 404
        /\ download.response.status \in {400, 404, 301} => download.served = EmptyStr
        /\ download.response.status \notin {400, 404, 301} =>
              /\ download.response.status = 200
              /\ ~C21_Refused(download.file)
              /\ download.served = UploadsDir \o download.file
              /\ download.served \in DOMAIN uploads
              /\ C21_DirectChild(download.served)

C21_Witness ==
    /\ download.pc = "done"
    /\ download.response.status = 200
    /\ \E p \in DOMAIN handlers :
          /\ handlers[p].pc = "done"
          /\ download.served = ProcessedCSVPath(handlers[p].uniqueID)

(***************************************************************************)
(* C22: whenever handleUpload answers with success = true, outputFilename  *)
(* names a file that exists in ./uploads and that handleDownload sends,    *)
(* and for the csv and markdown formats missingFilename names the existing *)
(* missing-data artifact of the same request.                              *)
(***************************************************************************)
\* handleDownload was asked for the name and did not send the file
C22_DownloadRefuses(name) ==
    /\ download.pc = "done"
    /\ download.file = name
    /\ download.response.status # 200

C22_Names(p) ==
    {handlers[p].response.body.outputFilename}
    \cup (IF handlers[p].outputFormat \in {"csv", "markdown"}
          THEN {handlers[p].response.body.missingFilename} ELSE {})

C22_SuccessNamesExistingArtifacts ==
    \A p \in DOMAIN handlers :
        (/\ requests[p].handler = "upload"
         /\ handlers[p].pc = "done"
         /\ handlers[p].response.status = 200
         /\ handlers[p].response.body.success)
        => /\ handlers[p].outputFormat \in {"csv", "markdown"}
                 => /\ "missingFilename" \in DOMAIN handlers[p].response.body
                    /\ handlers[p].response.body.missingFilename
                           = Base(IF handlers[p].outputFormat = "csv"
                                  THEN MissingCSVPath(handlers[p].uniqueID)
                                  ELSE MissingMDPath(handlers[p].uniqueID))
           /\ \A name \in C22_Names(p) :
                 /\ (UploadsDir \o name) \in DOMAIN uploads
                 /\ ~C22_DownloadRefuses(name)

(***************************************************************************)
(* C25: handleAPIProcess answers 200 with the bytes of the artifact and    *)
(* the summary only when processFile produced an artifact that exists;     *)
(* when processFile fails (read error, no data, render failure) its second *)
(* slot is empty or is not the path of an existing file, and the answer is *)
(* an error, never a 200.                                                  *)
(***************************************************************************)
\* the artifacts processFile writes for a format
C25_Artifacts(format, id) ==
    IF format = "csv" THEN {ProcessedCSVPath(id), MissingCSVPath(id)}
    ELSE IF format = "markdown" THEN {ProcessedMDPath(id), MissingMDPath(id)}
    ELSE {ProcessedXLSXPath(id)}

\* processFile failed: the upload could not be read, had no rows, or an
\* artifact of the format was not written
C25_Failed(p) ==
    \/ ~requests[p].file.ok
    \/ requests[p].file.records = <<>>
    \/ ~(C25_Artifacts(handlers[p].outputFormat, handlers[p].uniqueID)
            \subseteq DOMAIN uploads)

C25_Answered(p) ==
    /\ requests[p].handler = "api"
    /\ handlers[p].pc = "done"
    /\ handlers[p].uniqueID # EmptyStr

C25_OkOnlyWithArtifact ==
    \A p \in DOMAIN handlers :
        C25_Answered(p) =>
            /\ C25_Failed(p) =>
                  /\ \/ handlers[p].outputPath = EmptyStr
                     \/ handlers[p].outputPath \notin DOMAIN uploads
                  /\ handlers[p].response.status = 500
                  /\ handlers[p].response.body = MsgFailedOutput
            /\ handlers[p].response.status = 200 =>
                  /\ ~C25_Failed(p)
                  /\ handlers[p].outputPath
                        \in C25_Artifacts(handlers[p].outputFormat, handlers[p].uniqueID)
                  /\ handlers[p].response.body.summary = handlers[p].summary
                  /\ handlers[p].response.body.content = uploads[handlers[p].outputPath]
            /\ handlers[p].response.status \in {200, 500}

\* a request whose file has no rows was answered with the error, and so
\* was one whose save failed
C25_Witness ==
    \E p \in DOMAIN handlers :
        /\ C25_Answered(p)
        /\ requests[p].file.ok
        /\ requests[p].file.records = <<>>
        /\ handlers[p].outputPath = NoDataFound
        /\ handlers[p].response.status = 500

(***************************************************************************)
(* C29: within one request the path where the uploaded file is saved       *)
(* differs from every artifact path the request writes, for every accepted *)
(* filename and every output format, so rendering never overwrites the     *)
(* request's saved input file.                                             *)
(***************************************************************************)
C29_Written(format, id) ==
    IF format = "csv" THEN {ProcessedCSVPath(id), MissingCSVPath(id)}
    ELSE IF format = "markdown" THEN {ProcessedMDPath(id), MissingMDPath(id)}
    ELSE {ProcessedXLSXPath(id)}

C29_InputPathIsNoArtifactPath ==
    \A p \in DOMAIN handlers :
        handlers[p].uniqueID # EmptyStr =>
            /\ handlers[p].tempFilePath
                  \notin C29_Written(handlers[p].outputFormat, handlers[p].uniqueID)
            /\ handlers[p].tempFilePath \in DOMAIN uploads
            /\ uploads[handlers[p].tempFilePath]
                  = [ok |-> requests[p].file.ok, records |-> requests[p].file.records]

(***************************************************************************)
(* C30: cleanupOldFiles deletes only regular files directly inside         *)
(* ./uploads whose modification age is strictly greater than maxAge;       *)
(* directories and files whose age is at most maxAge are left as they are, *)
(* so the routine (at startup, then hourly, maxAge = 24 hours) never       *)
(* removes an artifact within 24 hours of its creation, however its steps  *)
(* interleave with those of a request.                                     *)
(***************************************************************************)
C30_Removed == (DOMAIN uploads) \ (DOMAIN uploads')

C30_Step ==
    /\ \A path \in C30_Removed :
          /\ cleanup' # cleanup
          /\ ~IsDir(path)
          /\ C21_DirectChild(path)
          /\ clock - modTime[path] > MaxAge
    /\ cleanup' # cleanup =>
          \A path \in (DOMAIN uploads) \ C30_Removed :
              /\ uploads'[path] = uploads[path]
              /\ modTime'[path] = modTime[path]
    /\ \A path \in DOMAIN uploads :
          (IsDir(path) \/ clock - modTime[path] <= MaxAge) => path \in DOMAIN uploads'

C30_CleanupRemovesOnlyOldFiles == [][C30_Step]_vars

\* a run of the routine beside a request removed the file of 36 hours ago
\* and left the directory, the file of 24 hours ago and the request's files
C30_Witness ==
    /\ cleanup.pc = "idle"
    /\ ~cleanup.due
    /\ clock = 0
    /\ StaleFile \notin DOMAIN uploads
    /\ {OldDirectory, DayOldFile} \subseteq DOMAIN uploads
    /\ \E p \in DOMAIN handlers :
          /\ handlers[p].pc = "done"
          /\ handlers[p].outputFormat = "csv"
          /\ {handlers[p].tempFilePath, ProcessedCSVPath(handlers[p].uniqueID),
              MissingCSVPath(handlers[p].uniqueID)} \subseteq DOMAIN uploads

====
